---- MODULE Spec2Model ----
(***************************************************************************)
(* Statement ingestion and portfolio reconciliation: the trade ledger      *)
(* writer (routers/ingest.py), the position lifecycle replay               *)
(* (routers/portfolio.py) and the closed-trade matcher                     *)
(* (routers/closed_trades.py) over the document store.                     *)
(*                                                                         *)
(* Conventions of the model                                                *)
(*  - Python None is the empty sequence <<>>, a present value x is <<x>>.  *)
(*  - An ISO date string is its day number; string order of ISO dates is   *)
(*    day order.  Day WindowStart is "2025-01-01".                         *)
(*  - Quantities are integer multiples of 1e-6 share, so the matcher's     *)
(*    tolerance 1e-6 is one unit and the replay's epsilon 1e-9 is 1/1000   *)
(*    of a unit.                                                           *)
(*  - A collection is the sequence of its documents in insertion order.    *)
(*  - sha256 is collision free: a digest is modelled by the digested value.*)
(***************************************************************************)
EXTENDS Integers, Sequences, FiniteSets, TLC

VARIABLES
    activity_trades,   \* db["activity_trades"]
    snapshots,         \* db["snapshots"]
    receipts,          \* db["receipts"]
    clock,             \* the wall clock in milliseconds (BSON date precision)
    resp,              \* the response of the last call
    uploads,           \* history of the activity uploads made so far
    jobs,              \* the ingest_activity calls in flight, one per client
    rows,              \* lifecycle replay: the rows the sorted cursor returned
    cur,               \* lifecycle replay: index of the next row of the cursor
    pos_qty,           \* lifecycle replay: running quantity per ticker
    opened_at,         \* lifecycle replay: ticker -> date the position opened
    prices_latest,     \* db["prices_latest"]
    prices_meta,       \* db["prices_meta"]: as_of of the document "latest"
    performance_daily  \* db["performance_daily"]

store == <<activity_trades, snapshots, receipts>>
replayVars == <<rows, cur, pos_qty, opened_at>>
derivedVars == <<prices_latest, prices_meta, performance_daily>>
vars == <<activity_trades, snapshots, receipts, clock, resp, uploads, jobs,
          rows, cur, pos_qty, opened_at,
          prices_latest, prices_meta, performance_daily>>

----------------------------------------------------------------------------
(* Optional values *)

None == <<>>
Some(x) == <<x>>
IsNone(v) == v = <<>>
Val(v) == v[1]

Abs(x) == IF x < 0 THEN -x ELSE x
MinOf(S) == CHOOSE x \in S : \A y \in S : x <= y
MaxOf(S) == CHOOSE x \in S : \A y \in S : x >= y

----------------------------------------------------------------------------
(* Bounds of the model *)

MaxRows == 2        \* rows in one uploaded activity file
MaxUploads == 2     \* activity uploads in one behaviour
MaxClock == 3       \* milliseconds the clock may advance in one behaviour

----------------------------------------------------------------------------
(* Cells of an uploaded table.  A date cell is its format and the day it   *)
(* names; a numeric cell is its form and the number written in it.         *)

Iso(d) == [fmt |-> "iso", day |-> d]
Mdy(d) == [fmt |-> "mdy", day |-> d]
BadDate == [fmt |-> "text", day |-> 0]
BlankDate == [fmt |-> "blank", day |-> 0]

Num(n) == [form |-> "plain", num |-> n]
Paren(n) == [form |-> "paren", num |-> n]
Blank == [form |-> "blank", num |-> 0]
Dash == [form |-> "dash", num |-> 0]

\* _to_float: blank, "-", "NM", "nan" and unparseable text are None;
\* "(x)" is -x; anything else is the number written.
_to_float(v) ==
    IF v.form \in {"blank", "dash", "text"} THEN None
    ELSE IF v.form = "paren" THEN Some(0 - v.num)
    ELSE Some(v.num)

\* _parse_run_date_cell: ISO prefixes and M/D/YYYY give the ISO date, all else None.
_parse_run_date_cell(v) ==
    IF v.fmt \in {"iso", "mdy"} THEN Some(v.day) ELSE None

\* str.lower() on the action texts of the model
lower(a) ==
    CASE a = "You bought" -> "you bought"
      [] a = "YOU BOUGHT" -> "you bought"
      [] a = "You sold" -> "you sold"
      [] a = "YOU SOLD" -> "you sold"
      [] a = "Dividend" -> "dividend"
      [] OTHER -> a

\* _action_side: the side comes from the prefix of the lowercased action text.
_action_side(action) ==
    LET a == lower(action) IN
    IF a = "you bought" THEN Some("BUY")
    ELSE IF a = "you sold" THEN Some("SELL")
    ELSE None

\* _clean_symbol: upper-cases, keeps "**" symbols, strips what is not [A-Z0-9.*].
_clean_symbol(raw) ==
    CASE raw = "aapl" -> "AAPL"
      [] raw = " XYZ " -> "XYZ"
      [] raw = "Pending Activity" -> "PENDINGACTIVITY"
      [] raw = "n/a" -> "NA"
      [] raw = "$12" -> "12"
      [] OTHER -> raw

TickerShaped == {"AAPL", "XYZ", "MSFT", "NA", "BRK.B"}   \* TICKER_RE matches
CashLike == {"SPAXX**", "FDRXX**"}                        \* end in "**"

\* _looks_like_symbol: ends with "**" or matches TICKER_RE.
_looks_like_symbol(sym) ==
    /\ sym # ""
    /\ (sym \in CashLike \/ sym \in TickerShaped)

\* _is_cash_like_ticker
_is_cash_like_ticker(t) == t # "" /\ t \in CashLike

----------------------------------------------------------------------------
(* The document store: update_one(filter on one key, $set, $setOnInsert,   *)
(* upsert=True) as MongoDB applies it from one client at a time.           *)

Matching(col, key, v) == {i \in 1..Len(col) : col[i][key] = v}

\* An update that leaves the stored document as it is.
ApplySetKeepsStored(old, setDoc) == old

\* $set on a stored document: the fields of setDoc replace the stored ones.
ApplySet(old, setDoc) ==
    [f \in DOMAIN old |-> IF f \in DOMAIN setDoc THEN setDoc[f] ELSE old[f]]

\* The insert of an upsert that matched no document.
InsertAlways(col, key, setDoc, now) ==
    [col |-> Append(col, setDoc @@ ("created_at" :> now)),
     upserted |-> TRUE, modified |-> 0]

\* insert_one in the place of the upsert: no query on the key.
InsertOne(col, key, setDoc, now) == InsertAlways(col, key, setDoc, now)

update_one(col, key, setDoc, now) ==
    LET m == Matching(col, key, setDoc[key]) IN
    IF m = {} THEN InsertAlways(col, key, setDoc, now)
    ELSE LET i == MinOf(m)
             new == ApplySet(col[i], setDoc)
         IN [col |-> [col EXCEPT ![i] = new],
             upserted |-> FALSE,
             modified |-> IF new = col[i] THEN 0 ELSE 1]

----------------------------------------------------------------------------
(* Trade ledger writer: ingest_activity *)

\* The parsed fields of one activity row.
RowSide(r) == _action_side(r.action)
RowDate(r) == _parse_run_date_cell(r.run_date)
RowSym(r) == _clean_symbol(r.symbol)
RowQty(r) == _to_float(r.qty)
RowPrice(r) == _to_float(r.price)
RowFees(r) == _to_float(r.fees)
RowSettle(r) == _parse_run_date_cell(r.settle)

\* The tests without the one for a quantity of 0.
RowSkippedZeroQtyKept(r) ==
    \/ IsNone(RowSide(r))
    \/ IsNone(RowDate(r))
    \/ RowSym(r) = "" \/ ~_looks_like_symbol(RowSym(r))
    \/ IsNone(RowQty(r))

\* The row-level tests that skip a row.
RowSkipped(r) ==
    \/ IsNone(RowSide(r))
    \/ IsNone(RowDate(r))
    \/ RowSym(r) = "" \/ ~_looks_like_symbol(RowSym(r))
    \/ IsNone(RowQty(r)) \/ Val(RowQty(r)) = 0

\* "{price or ''}" and "{settle_date or ''}": None and a falsy value (the
\* price 0.0) both print as ''.
OrEmpty(v) == IF IsNone(v) \/ Val(v) = 0 THEN None ELSE v

\* trade_key: the seven fields, "|"-separated.
trade_key(r) ==
    <<Val(RowDate(r)), Val(RowSide(r)), RowSym(r), Abs(Val(RowQty(r))),
      OrEmpty(RowPrice(r)), OrEmpty(RowSettle(r)), lower(r.action)>>

\* A key that also holds the file's digest (what the comment above trade_key
\* announces and the code does not do).
TradeIdWithFileHash(r, sha) == Append(trade_key(r), sha)

\* trade_id = sha256(trade_key)[:24]
trade_id(r, sha) == trade_key(r)

\* A document that takes its side from the sign of the quantity cell.
TradeDocSideFromSign(r, filename, sha, now) ==
    [trade_id |-> trade_id(r, sha),
     trade_date |-> Val(RowDate(r)),
     settlement_date |-> RowSettle(r),
     side |-> IF Val(RowQty(r)) < 0 THEN "SELL" ELSE "BUY",
     ticker |-> RowSym(r),
     description |-> IF r.desc = "" THEN None ELSE Some(r.desc),
     qty |-> Abs(Val(RowQty(r))),
     price |-> RowPrice(r),
     fees |-> RowFees(r),
     value_est |-> IF IsNone(RowPrice(r)) THEN None
                   ELSE Some(Val(RowPrice(r)) * Abs(Val(RowQty(r)))),
     source |-> [filename |-> filename, sha256 |-> sha, action_raw |-> r.action],
     updated_at |-> now]

\* The $set document of one accepted row.
TradeDoc(r, filename, sha, now) ==
    LET qty_abs == Abs(Val(RowQty(r)))
        price == RowPrice(r)
    IN [trade_id |-> trade_id(r, sha),
        trade_date |-> Val(RowDate(r)),
        settlement_date |-> RowSettle(r),
        side |-> Val(RowSide(r)),
        ticker |-> RowSym(r),
        description |-> IF r.desc = "" THEN None ELSE Some(r.desc),
        qty |-> qty_abs,
        price |-> price,
        fees |-> RowFees(r),
        value_est |-> IF IsNone(price) THEN None ELSE Some(Val(price) * qty_abs),
        source |-> [filename |-> filename, sha256 |-> sha, action_raw |-> r.action],
        updated_at |-> now]

\* The loop over df.iterrows(): row i is handled at time times[i].
RECURSIVE IngestRows(_, _, _, _, _, _)
IngestRows(col, df, i, times, filename, acc) ==
    IF i > Len(df) THEN [col |-> col, written |-> acc.written, skipped |-> acc.skipped,
                           seen |-> Len(df)]
    ELSE IF RowSkipped(df[i])
         THEN IngestRows(col, df, i + 1, times, filename,
                         [acc EXCEPT !.skipped = @ + 1])
         ELSE LET res == update_one(col, "trade_id",
                                    TradeDoc(df[i], filename, df, times[i]), times[i])
                  w == IF res.upserted \/ res.modified > 0 THEN 1 ELSE 0
              IN IngestRows(res.col, df, i + 1, times, filename,
                            [acc EXCEPT !.written = @ + w])

\* The times of the rows of one call: the clock never goes back, and two
\* consecutive utcnow() calls may fall into the same millisecond.
RowTimes(n, t0) ==
    {ts \in [1..n -> t0..MaxClock] :
        \A i \in 1..n : ts[i] - (IF i = 1 THEN t0 ELSE ts[i - 1]) \in {0, 1}}

AcceptedIds(filename, df) ==
    {trade_id(df[i], df) : i \in {j \in 1..Len(df) : ~RowSkipped(df[j])}}

StoredIds(col) == {col[i].trade_id : i \in 1..Len(col)}

\* One call of the handler; ts[i] is the utcnow() of row i.
ingest_activity(filename, df, ts) ==
    /\ Cardinality({k \in 1..Len(uploads) : uploads[k].kind = "activity"}) < MaxUploads
    /\ LET out == IngestRows(activity_trades, df, 1, ts, filename,
                             [written |-> 0, skipped |-> 0])
       IN /\ activity_trades' = out.col
          /\ clock' = IF Len(df) = 0 THEN clock ELSE ts[Len(df)]
          /\ resp' = [call |-> "ingest_activity",
                      rows_written |-> out.written,
                      rows_skipped |-> out.skipped,
                      rows_total_seen |-> out.seen]
          /\ uploads' = Append(uploads,
                          [kind |-> "activity", filename |-> filename, rows |-> df,
                           fresh |-> AcceptedIds(filename, df)
                                       \cap StoredIds(activity_trades) = {},
                           written |-> out.written,
                           stored |-> Len(out.col)])
    /\ UNCHANGED <<snapshots, receipts, jobs, replayVars, derivedVars>>

----------------------------------------------------------------------------
(* Position lifecycle engine: _opened_at_map_from_activity_trades *)

Tol == 1               \* tol = 1e-6, in units of 1e-6 share
EpsDenominator == 1000 \* 1e-9 is one unit divided by 1000
WindowStart == 2       \* start_date = "2025-01-01"; day 1 is "2024-12-31"

\* Python dicts
EmptyMap == [x \in {} |-> 0]
Get(d, x, default) == IF x \in DOMAIN d THEN d[x] ELSE default
Put(d, x, v) == [y \in DOMAIN d \cup {x} |-> IF y = x THEN v ELSE d[y]]
Del(d, x) == [y \in DOMAIN d \ {x} |-> d[y]]

\* A BUY that records the open date whatever the running quantity was.
ApplyBuyAlwaysOpens(st, t, qty, dt) ==
    [pos_qty |-> Put(st.pos_qty, t, Get(st.pos_qty, t, 0) + qty),
     opened_at |-> Put(st.opened_at, t, dt)]

\* BUY: add; record the open when the quantity crosses from 0 to positive.
ApplyBuy(st, t, qty, dt) ==
    LET prev == Get(st.pos_qty, t, 0)
        new == prev + qty
    IN [pos_qty |-> Put(st.pos_qty, t, new),
        opened_at |-> IF prev <= 0 /\ new > 0 THEN Put(st.opened_at, t, dt)
                      ELSE st.opened_at]

\* A SELL that subtracts without looking at the baseline.
ApplySellUnclamped(st, t, qty) ==
    LET new == Get(st.pos_qty, t, 0) - qty
    IN [pos_qty |-> Put(st.pos_qty, t, new),
        opened_at |-> IF new = 0 /\ t \in DOMAIN st.opened_at THEN Del(st.opened_at, t)
                      ELSE st.opened_at]

\* A SELL that leaves the open marker of a position it closes.
ApplySellKeepsMarker(st, t, qty) ==
    LET prev == Get(st.pos_qty, t, 0)
        sub == prev - qty
    IN [pos_qty |-> Put(st.pos_qty, t, IF prev <= 0 \/ sub * EpsDenominator < 1 THEN 0 ELSE sub),
        opened_at |-> st.opened_at]

\* A SELL of more than is held handled as a SELL at a baseline of 0.
ApplySellOversoldAsBaseline(st, t, qty) ==
    LET prev == Get(st.pos_qty, t, 0)
        sub == prev - qty
    IN IF prev <= 0 \/ sub < 0
       THEN [pos_qty |-> Put(st.pos_qty, t, 0), opened_at |-> st.opened_at]
       ELSE [pos_qty |-> Put(st.pos_qty, t, IF sub * EpsDenominator < 1 THEN 0 ELSE sub),
             opened_at |-> IF sub * EpsDenominator < 1 /\ t \in DOMAIN st.opened_at
                           THEN Del(st.opened_at, t) ELSE st.opened_at]

\* SELL: at a baseline of 0 only clamp; else subtract, and at ~0 drop the marker.
ApplySell(st, t, qty) ==
    LET prev == Get(st.pos_qty, t, 0)
        sub == prev - qty
        new == IF sub * EpsDenominator < 1 THEN 0 ELSE sub
    IN IF prev <= 0
       THEN [pos_qty |-> Put(st.pos_qty, t, 0), opened_at |-> st.opened_at]
       ELSE [pos_qty |-> Put(st.pos_qty, t, new),
             opened_at |-> IF new = 0 /\ t \in DOMAIN st.opened_at
                           THEN Del(st.opened_at, t) ELSE st.opened_at]

\* One iteration of the loop over the cursor's rows.
LifecycleStep(st, r, ticker_filter) ==
    IF r.ticker = "" \/ _is_cash_like_ticker(r.ticker) THEN st
    ELSE IF ~IsNone(ticker_filter) /\ r.ticker \notin Val(ticker_filter) THEN st
    ELSE IF r.side \notin {"BUY", "SELL"} THEN st
    ELSE IF Abs(r.qty) <= 0 THEN st
    ELSE IF r.side = "BUY" THEN ApplyBuy(st, r.ticker, Abs(r.qty), r.trade_date)
    ELSE ApplySell(st, r.ticker, Abs(r.qty))

----------------------------------------------------------------------------
(* The replay loop, one row at a time, over any sorted cursor *)

MaxDay == 3          \* trade dates are days 1..MaxDay
MaxReplayLen == 3    \* rows of a replayed cursor

Days == 1..MaxDay

ReplayRow(ticker, side, qty, trade_date) ==
    [ticker |-> ticker, side |-> side, qty |-> qty, trade_date |-> trade_date]

\* Rows of the ledger a cursor can return: buys and sells of two tickers, of
\* 1 and 10 units, and trades of a cash-like symbol.
ReplayRows ==
    {ReplayRow(t, sd, q, d) : t \in {"AAPL", "XYZ"}, sd \in {"BUY", "SELL"},
                              q \in {1, 10}, d \in Days}
    \cup {ReplayRow("SPAXX**", "BUY", 1, d) : d \in Days}

\* The cursors of up to n rows in ascending trade_date order (.sort at line 256).
RECURSIVE SortedCursors(_)
SortedCursors(n) ==
    IF n = 0 THEN {<<>>}
    ELSE LET shorter == SortedCursors(n - 1)
         IN shorter \cup
            {Append(s, r) : <<s, r>> \in
                {x \in {y \in shorter : Len(y) = n - 1} \X ReplayRows :
                    x[1] = <<>> \/ x[1][Len(x[1])].trade_date <= x[2].trade_date}}

StoreEmpty ==
    /\ activity_trades = <<>>
    /\ snapshots = <<>>
    /\ receipts = <<>>
    /\ clock = 0
    /\ resp = [call |-> "none"]
    /\ prices_latest = <<>>
    /\ prices_meta = None
    /\ performance_daily = <<>>

ReplayIdle ==
    /\ rows = <<>>
    /\ cur = 1
    /\ pos_qty = EmptyMap
    /\ opened_at = EmptyMap

InitReplay ==
    /\ StoreEmpty
    /\ uploads = <<>>
    /\ jobs = <<>>
    /\ rows \in SortedCursors(MaxReplayLen)
    /\ cur = 1
    /\ pos_qty = EmptyMap
    /\ opened_at = EmptyMap

ReplayStep ==
    /\ cur <= Len(rows)
    /\ resp.call = "none"
    /\ LET st == LifecycleStep([pos_qty |-> pos_qty, opened_at |-> opened_at], rows[cur], None)
       IN /\ pos_qty' = st.pos_qty
          /\ opened_at' = st.opened_at
    /\ cur' = cur + 1
    /\ UNCHANGED <<activity_trades, snapshots, receipts, clock, resp, uploads, jobs, rows, derivedVars>>

\* return opened_at
ReplayReturn ==
    /\ cur > Len(rows)
    /\ resp.call = "none"
    /\ resp' = [call |-> "opened_at_map", opened_at |-> opened_at]
    /\ UNCHANGED <<activity_trades, snapshots, receipts, clock, uploads, jobs, replayVars, derivedVars>>

NextReplay == ReplayStep \/ ReplayReturn

SpecReplay == InitReplay /\ [][NextReplay]_vars

----------------------------------------------------------------------------
(* The ledger writer under sequential uploads *)

ActivityRow(action, run_date, symbol, qty, price, settle, desc, fees) ==
    [action |-> action, run_date |-> run_date, symbol |-> symbol, qty |-> qty,
     price |-> price, settle |-> settle, desc |-> desc, fees |-> fees]

\* Rows an export can hold: the same buy written in two shapes, sells with
\* the price 0, without a price and with a price, and a row that is no trade.
LedgerRows ==
    {ActivityRow("You bought", Iso(2), "AAPL", Num(2), Num(5), BlankDate, "", Blank),
     ActivityRow("YOU BOUGHT", Mdy(2), "aapl", Num(2), Num(5), BlankDate, "APPLE INC", Num(1)),
     ActivityRow("You sold", Iso(3), "AAPL", Paren(2), Num(0), Iso(3), "", Blank),
     ActivityRow("You sold", Iso(3), "AAPL", Num(2), Dash, Iso(3), "", Blank),
     ActivityRow("You sold", Iso(3), " XYZ ", Num(1), Num(5), BlankDate, "", Blank),
     ActivityRow("Dividend", Iso(3), "AAPL", Num(1), Num(5), BlankDate, "", Blank)}

Filenames == {"a.csv", "b.csv"}

SeqsUpTo(S, n) == UNION {[1..k -> S] : k \in 0..n}

LedgerFiles == SeqsUpTo(LedgerRows, MaxRows)

Init ==
    /\ StoreEmpty
    /\ uploads = <<>>
    /\ jobs = <<>>
    /\ ReplayIdle

Next ==
    \E filename \in Filenames, df \in LedgerFiles :
        \E ts \in RowTimes(Len(df), clock) : ingest_activity(filename, df, ts)

Spec == Init /\ [][Next]_vars

----------------------------------------------------------------------------
(* Claims about the ledger writer *)

Accepted(df) == {i \in 1..Len(df) : ~RowSkipped(df[i])}

\* C1: when the identical file is ingested twice in a row into a ledger that
\* held none of its trades, the first call returns written == N (the number
\* of accepted rows), the second returns written == 0, and the number of
\* stored trades after the second call equals the number after the first.
C1_IdempotentReupload ==
    \A k \in 2..Len(uploads) :
        LET a == uploads[k - 1]
            b == uploads[k]
        IN (a.filename = b.filename /\ a.rows = b.rows /\ a.fresh)
             => /\ a.written = Cardinality(Accepted(a.rows))
                /\ b.written = 0
                /\ b.stored = a.stored

\* Every identity an accepted row of an upload made so far received.
UploadedIds == UNION {AcceptedIds(uploads[k].filename, uploads[k].rows) : k \in 1..Len(uploads)}

\* C2: after any sequence of sequential activity uploads the ledger holds at
\* most one record per trade identity, and as many records as there are
\* distinct identities among all accepted rows ever uploaded.
C2_OneRecordPerIdentity ==
    /\ \A id \in StoredIds(activity_trades) :
           Cardinality(Matching(activity_trades, "trade_id", id)) = 1
    /\ StoredIds(activity_trades) = UploadedIds
    /\ Len(activity_trades) = Cardinality(UploadedIds)

C2_Witness ==
    /\ Len(uploads) = 2
    /\ Len(activity_trades) = 2
    /\ AcceptedIds(uploads[1].filename, uploads[1].rows)
         \cap AcceptedIds(uploads[2].filename, uploads[2].rows) # {}
    /\ uploads[1].rows # uploads[2].rows

\* The accepted rows uploaded so far, each with the place it came from.
Occurrences == {<<k, i>> \in (1..Len(uploads)) \X (1..MaxRows + 1) :
                    i \in Accepted(uploads[k].rows)}
OccRow(o) == uploads[o[1]].rows[o[2]]
OccId(o) == trade_id(OccRow(o), uploads[o[1]].rows)

\* The seven identity fields of an accepted row, as parsed.
SevenFields(r) ==
    <<Val(RowDate(r)), Val(RowSide(r)), RowSym(r), Abs(Val(RowQty(r))),
      RowPrice(r), RowSettle(r), lower(r.action)>>

----------------------------------------------------------------------------
(* Two ingest_activity calls in flight.  Each call awaits update_one row by *)
(* row, so the calls interleave between rows.  activity_trades has no       *)
(* unique index on trade_id (main.py creates one for users and              *)
(* activity_thesis only), so the server runs an upsert as a query followed  *)
(* by an update of the matched document or, when the query matched none,    *)
(* an insert: two upserts of one trade_id may both match nothing.           *)

Clients == {1, 2}

Job(filename, df) ==
    [filename |-> filename, rows |-> df, i |-> 1, phase |-> "query", found |-> 0,
     written |-> 0, skipped |-> 0]

JobDone(j) == j.i > Len(j.rows)

SharesIdentity(f1, f2) == AcceptedIds("a.csv", f1) \cap AcceptedIds("b.csv", f2) # {}

InitConc ==
    /\ StoreEmpty
    /\ uploads = <<>>
    /\ ReplayIdle
    /\ \E f1, f2 \in LedgerFiles :
         /\ SharesIdentity(f1, f2)
         /\ jobs = <<Job("a.csv", f1), Job("b.csv", f2)>>

\* utcnow() in a call in flight
Now == IF clock < MaxClock THEN {clock, clock + 1} ELSE {clock}

\* A row that fails a row-level test is skipped without touching the store.
SkipRow(c) ==
    LET j == jobs[c] IN
    /\ ~JobDone(j) /\ j.phase = "query"
    /\ RowSkipped(j.rows[j.i])
    /\ jobs' = [jobs EXCEPT ![c] = [j EXCEPT !.i = @ + 1, !.skipped = @ + 1]]
    /\ UNCHANGED <<activity_trades, snapshots, receipts, clock, resp, uploads, replayVars, derivedVars>>

\* The query of the upsert of the call's current row.
UpsertQuery(c) ==
    LET j == jobs[c]
        m == Matching(activity_trades, "trade_id", trade_id(j.rows[j.i], j.rows))
    IN /\ ~JobDone(j) /\ j.phase = "query"
       /\ ~RowSkipped(j.rows[j.i])
       /\ jobs' = [jobs EXCEPT ![c] = [j EXCEPT !.phase = "write",
                                         !.found = IF m = {} THEN 0 ELSE MinOf(m)]]
       /\ UNCHANGED <<activity_trades, snapshots, receipts, clock, resp, uploads, replayVars, derivedVars>>

\* The write of the upsert: $set on the matched document, or the insert.
UpsertWrite(c) ==
    LET j == jobs[c] IN
    /\ ~JobDone(j) /\ j.phase = "write"
    /\ \E now \in Now :
         LET doc == TradeDoc(j.rows[j.i], j.filename, j.rows, now)
             res == IF j.found = 0
                    THEN InsertAlways(activity_trades, "trade_id", doc, now)
                    ELSE [col |-> [activity_trades EXCEPT
                                     ![j.found] = ApplySet(activity_trades[j.found], doc)],
                          upserted |-> FALSE,
                          modified |-> IF ApplySet(activity_trades[j.found], doc)
                                            = activity_trades[j.found] THEN 0 ELSE 1]
             w == IF res.upserted \/ res.modified > 0 THEN 1 ELSE 0
         IN /\ activity_trades' = res.col
            /\ clock' = now
            /\ jobs' = [jobs EXCEPT ![c] = [j EXCEPT !.phase = "query", !.found = 0,
                                              !.i = @ + 1, !.written = @ + w]]
    /\ UNCHANGED <<snapshots, receipts, resp, uploads, replayVars, derivedVars>>

NextConc == \E c \in Clients : SkipRow(c) \/ UpsertQuery(c) \/ UpsertWrite(c)

SpecConc == InitConc /\ [][NextConc]_vars

\* The ledger after the call with file f1 and then the call with file f2.
Sequential(f1, n1, f2, n2) ==
    LET t == [i \in 1..MaxRows |-> 0]
        zero == [written |-> 0, skipped |-> 0]
        one == IngestRows(<<>>, f1, 1, t, n1, zero).col
    IN IngestRows(one, f2, 1, t, n2, zero).col

\* C3: when two calls whose files share a trade identity run concurrently,
\* the ledger ends with exactly one record per identity and with the same
\* set of identities as when the calls run one after the other, in either order.
C3_ConcurrentConvergence ==
    (JobDone(jobs[1]) /\ JobDone(jobs[2]))
      => /\ \A id \in StoredIds(activity_trades) :
               Cardinality(Matching(activity_trades, "trade_id", id)) = 1
         /\ StoredIds(activity_trades)
              = StoredIds(Sequential(jobs[1].rows, jobs[1].filename,
                                     jobs[2].rows, jobs[2].filename))
         /\ StoredIds(activity_trades)
              = StoredIds(Sequential(jobs[2].rows, jobs[2].filename,
                                     jobs[1].rows, jobs[1].filename))

----------------------------------------------------------------------------
(* Claims about the lifecycle replay.  The running quantity the claims     *)
(* speak of is stated here from the processed prefix of the cursor alone:  *)
(* a BUY adds, a SELL subtracts and stops at 0.                            *)

Counts(r, t) == r.ticker = t /\ r.side \in {"BUY", "SELL"} /\ r.qty > 0

RECURSIVE RunQty(_, _)
RunQty(t, n) ==
    IF n = 0 THEN 0
    ELSE LET r == rows[n]
             before == RunQty(t, n - 1)
         IN IF ~Counts(r, t) THEN before
            ELSE IF r.side = "BUY" THEN before + r.qty
            ELSE IF before - r.qty > 0 THEN before - r.qty ELSE 0

Running(d, t) == IF t \in DOMAIN d THEN d[t] ELSE 0
Processed == cur - 1
Traded == {rows[i].ticker : i \in 1..Len(rows)}

\* C5: at every step of the replay each ticker's running quantity is >= 0,
\* and a SELL processed while the ticker's running quantity is 0 leaves the
\* quantity at 0 and the opened_at mapping unchanged; a replay of a lone
\* SELL returns no entry.
C5_NoNegativeBaseline ==
    [][/\ \A t \in DOMAIN pos_qty' : pos_qty'[t] >= 0
       /\ (cur' = cur + 1 /\ rows[cur].side = "SELL"
             /\ Running(pos_qty, rows[cur].ticker) = 0)
            => /\ Running(pos_qty', rows[cur].ticker) = 0
               /\ opened_at' = opened_at
       /\ (resp'.call = "opened_at_map" /\ Len(rows) = 1 /\ rows[1].side = "SELL")
            => DOMAIN resp'.opened_at = {}]_vars

C5_Witness ==
    /\ resp.call = "opened_at_map"
    /\ rows = <<ReplayRow("XYZ", "SELL", 10, 2)>>
    /\ Running(pos_qty, "XYZ") = 0
    /\ "XYZ" \notin DOMAIN resp.opened_at

\* The BUYs of ticker t among the first n rows that raised its running
\* quantity from 0 to a positive value.
FlatBuys(t, n) ==
    {i \in 1..n : /\ Counts(rows[i], t) /\ rows[i].side = "BUY"
                  /\ RunQty(t, i - 1) = 0 /\ RunQty(t, i) > 0}

\* C6: for every ticker in the mapping, opened_at is the trade date of the
\* last BUY in replay order that raised the running quantity from 0 to a
\* positive value; a BUY applied while the quantity is positive changes nothing.
C6_OpenedAtIsLastFlatBuy ==
    /\ \A t \in DOMAIN opened_at :
          /\ FlatBuys(t, Processed) # {}
          /\ opened_at[t] = rows[MaxOf(FlatBuys(t, Processed))].trade_date
    /\ resp.call = "opened_at_map" => resp.opened_at = opened_at

C6_Witness ==
    /\ resp.call = "opened_at_map"
    /\ \E t \in DOMAIN resp.opened_at :
         \E i, j \in 1..Len(rows) :
            /\ i < j
            /\ i = MaxOf(FlatBuys(t, Len(rows)))
            /\ Counts(rows[j], t) /\ rows[j].side = "BUY"
            /\ rows[j].trade_date > rows[i].trade_date
            /\ resp.opened_at[t] = rows[i].trade_date

\* The SELLs of ticker t among the first n rows that brought a positive
\* running quantity to zero.
Closes(t, n) ==
    {i \in 1..n : /\ Counts(rows[i], t) /\ rows[i].side = "SELL"
                  /\ RunQty(t, i - 1) > 0 /\ RunQty(t, i) = 0}

BuysAfter(t, c, n) == {i \in c + 1..n : Counts(rows[i], t) /\ rows[i].side = "BUY"}

\* C7: after a SELL that brings a ticker's positive running quantity to zero
\* the ticker has no opened_at entry; when a BUY of the ticker follows,
\* opened_at is that BUY's date; when none follows, the ticker is absent
\* from the returned mapping.
C7_CloseAndReopen ==
    \A t \in Traded :
        Closes(t, Processed) # {} =>
            LET c == MaxOf(Closes(t, Processed))
                later == BuysAfter(t, c, Processed)
            IN /\ later = {} => t \notin DOMAIN opened_at
               /\ later # {} => /\ t \in DOMAIN opened_at
                                /\ opened_at[t] = rows[MinOf(later)].trade_date
               /\ (resp.call = "opened_at_map" /\ later = {})
                    => t \notin DOMAIN resp.opened_at

C7_Witness ==
    /\ resp.call = "opened_at_map"
    /\ Len(rows) = 3
    /\ Closes("AAPL", 3) = {2}
    /\ BuysAfter("AAPL", 2, 3) = {3}
    /\ rows[3].trade_date > rows[1].trade_date
    /\ resp.opened_at["AAPL"] = rows[3].trade_date

----------------------------------------------------------------------------
(* Snapshot writer: ingest_positions and _upsert_receipt_for_day.  The     *)
(* tables of the model have the Symbol, Description, Quantity, Last Price, *)
(* Current Value and Average Cost Basis columns and no others, so the      *)
(* optional cost, day, total and weight fields are absent from every       *)
(* position and todays_pnl_total is 0.  The utcnow() calls that fill one   *)
(* stored document fall into one millisecond.                              *)

MaxSnapshotUploads == 2   \* positions uploads in one behaviour

\* The cells of one row under the detected columns; a table of the model
\* has no cost, day, total and weight column unless the row says so.
PositionRow(symbol, desc, qty, price, value, avg) ==
    [symbol |-> symbol, desc |-> desc, qty |-> qty, price |-> price,
     value |-> value, avg |-> avg,
     cost |-> Blank, day |-> Blank, total |-> Blank, weight |-> Blank]

\* sym_norm == "PENDING" or "pending" in sym_raw.lower()
PendingCells == {"Pending Activity", "PENDING", "pending"}

IsPendingRow(r) == r.symbol \in PendingCells

\* Description cells that hold one of the bad phrases.
DisclaimerTexts == {"Date downloaded 01/02/2025", "Brokerage services are provided by FBS"}

\* _is_disclaimer_row: the blob of cleaned symbol and description is empty
\* or holds a bad phrase (a cleaned symbol has no blanks, so it holds none).
_is_disclaimer_row(sym, desc) ==
    \/ sym = "" /\ desc = ""
    \/ desc \in DisclaimerTexts

\* "x or 0.0"
OrZero(v) == IF IsNone(v) THEN 0 ELSE Val(v)

\* The position built from one accepted row.
PositionDoc(r) ==
    [ticker |-> _clean_symbol(r.symbol),
     name |-> IF r.desc = "" THEN "-" ELSE r.desc,   \* desc_raw or an em dash
     quantity |-> OrZero(_to_float(r.qty)),
     last_price |-> _to_float(r.price),
     market_value |-> _to_float(r.value),
     avg_cost |-> _to_float(r.avg),
     cost_value |-> _to_float(r.cost),
     todays_gain_loss |-> _to_float(r.day),
     total_gain_loss |-> _to_float(r.total),
     weight_pct |-> _to_float(r.weight)]

\* The loop over df.iterrows(): pending rows add to pending_amount, rows
\* that are disclaimers or not symbol-shaped are dropped, the rest appended.
RECURSIVE PositionsLoop(_, _, _)
PositionsLoop(df, i, acc) ==
    IF i > Len(df) THEN acc
    ELSE LET r == df[i]
             sym == _clean_symbol(r.symbol)
         IN IF IsPendingRow(r)
            THEN PositionsLoop(df, i + 1,
                    [acc EXCEPT !.pending_amount = @ + OrZero(_to_float(r.value))])
            ELSE IF _is_disclaimer_row(sym, r.desc) \/ ~_looks_like_symbol(sym)
            THEN PositionsLoop(df, i + 1, acc)
            ELSE PositionsLoop(df, i + 1,
                    [acc EXCEPT !.positions = Append(@, PositionDoc(r))])

ParsePositions(df) == PositionsLoop(df, 1, [positions |-> <<>>, pending_amount |-> 0])

\* A sum that leaves the "**" lines out whatever it is asked for.
RECURSIVE SumValuesNoCash(_, _, _)
SumValuesNoCash(positions, i, withCash) ==
    IF i > Len(positions) THEN 0
    ELSE (IF positions[i].ticker \notin CashLike
          THEN OrZero(positions[i].market_value) ELSE 0)
         + SumValuesNoCash(positions, i + 1, withCash)

\* sum(market_value or 0) over the positions, with or without the "**" lines
RECURSIVE SumValues(_, _, _)
SumValues(positions, i, withCash) ==
    IF i > Len(positions) THEN 0
    ELSE (IF withCash \/ positions[i].ticker \notin CashLike
          THEN OrZero(positions[i].market_value) ELSE 0)
         + SumValues(positions, i + 1, withCash)

\* The $set document of the snapshot.
SnapshotDoc(as_of, parsed, filename, sha, now) ==
    [as_of |-> as_of,
     positions |-> parsed.positions,
     non_cash_positions_value |-> SumValues(parsed.positions, 1, FALSE),
     total_value |-> SumValues(parsed.positions, 1, TRUE) + parsed.pending_amount,
     todays_pnl_total |-> 0,
     cash_spaxx |-> 0,
     pending_amount |-> parsed.pending_amount,
     source |-> [kind |-> "positions_upload", filename |-> filename,
                 sha256 |-> sha, ingested_at |-> now],
     updated_at |-> now]

\* find_one(filter, sort=[("as_of", -1)]): the matching document of the
\* greatest as_of (as_of is unique under one writer at a time).
LatestOf(col, m) ==
    IF m = {} THEN None
    ELSE Some(col[MinOf({i \in m : \A j \in m : col[j].as_of <= col[i].as_of})])

\* _pos_map: ticker -> the last position of that ticker; keys in the order
\* of their first occurrence.
PosOf(positions, t) ==
    LET m == {i \in 1..Len(positions) : positions[i].ticker = t} IN
    IF m = {} THEN None ELSE Some(positions[MaxOf(m)])

RECURSIVE PosKeys(_, _)
PosKeys(positions, i) ==
    IF i > Len(positions) THEN <<>>
    ELSE LET rest == PosKeys(positions, i + 1)
             t == positions[i].ticker
         IN <<t>> \o SelectSeq(rest, LAMBDA x : x # t)

\* list.sort(key=value_est, reverse=True): descending and stable.
RECURSIVE SortSold(_)
SortSold(sold) ==
    IF sold = <<>> THEN <<>>
    ELSE LET x == sold[Len(sold)]
             init == SortSold(SubSeq(sold, 1, Len(sold) - 1))
             k == Cardinality({j \in 1..Len(init) : init[j].value_est >= x.value_est})
         IN SubSeq(init, 1, k) \o <<x>> \o SubSeq(init, k + 1, Len(init))

\* A diff that passes over the tickers the upload no longer lists.
SoldEntryHeldOnly(prev_pos, cur_pos) ==
    IF IsNone(cur_pos) \/ Val(cur_pos).quantity - prev_pos.quantity >= 0 THEN None
    ELSE Some([ticker |-> prev_pos.ticker, side |-> "SELL",
               qty |-> Abs(Val(cur_pos).quantity - prev_pos.quantity),
               price_est |-> OrZero(Val(cur_pos).last_price),
               value_est |-> Abs(Val(cur_pos).quantity - prev_pos.quantity)
                               * OrZero(Val(cur_pos).last_price),
               from_qty |-> prev_pos.quantity, to_qty |-> Val(cur_pos).quantity])

\* The sold entry of one ticker of the previous snapshot, or None.
SoldEntry(prev_pos, cur_pos) ==
    LET prev_qty == prev_pos.quantity
        cur_qty == IF IsNone(cur_pos) THEN 0 ELSE Val(cur_pos).quantity
        cur_price == IF IsNone(cur_pos) THEN 0 ELSE OrZero(Val(cur_pos).last_price)
        price == IF cur_price <= 0 THEN OrZero(prev_pos.last_price) ELSE cur_price
        qty_sold == Abs(cur_qty - prev_qty)
    IN IF cur_qty - prev_qty >= 0 THEN None
       ELSE Some([ticker |-> prev_pos.ticker, side |-> "SELL", qty |-> qty_sold,
                  price_est |-> price, value_est |-> qty_sold * price,
                  from_qty |-> prev_qty, to_qty |-> cur_qty])

RECURSIVE SoldLoop(_, _, _, _)
SoldLoop(keys, i, prev_positions, cur_positions) ==
    IF i > Len(keys) THEN <<>>
    ELSE LET e == SoldEntry(Val(PosOf(prev_positions, keys[i])),
                            PosOf(cur_positions, keys[i]))
             rest == SoldLoop(keys, i + 1, prev_positions, cur_positions)
         IN IF IsNone(e) THEN rest ELSE <<Val(e)>> \o rest

RECURSIVE SumSold(_, _)
SumSold(sold, i) ==
    IF i > Len(sold) THEN 0 ELSE sold[i].value_est + SumSold(sold, i + 1)

\* The receipt of the day: what the previous snapshot held and this one
\* holds less of.
ReceiptDoc(snaps, as_of, filename, sha, positions, now) ==
    LET prev == LatestOf(snaps, {i \in 1..Len(snaps) : snaps[i].as_of < as_of})
        prev_positions == IF IsNone(prev) THEN <<>> ELSE Val(prev).positions
        unsorted == SoldLoop(PosKeys(prev_positions, 1), 1, prev_positions, positions)
        sold == SortSold(unsorted)
    IN [date |-> as_of,
        prev_date |-> IF IsNone(prev) THEN None ELSE Some(Val(prev).as_of),
        source |-> [filename |-> filename, sha256 |-> sha],
        positions_count |-> Len(positions),
        sold |-> sold,
        sold_count |-> Len(sold),
        sold_value_est |-> SumSold(unsorted, 1),
        updated_at |-> now]

\* A test that never finds the list empty.
ZeroPositionsIgnored(positions) == FALSE

\* if not positions: raise HTTPException(status_code=400, ...)
ZeroPositions(positions) == positions = <<>>

NumUploads(kind) == Cardinality({k \in 1..Len(uploads) : uploads[k].kind = kind})

\* One call of the handler; ts[1] is the time of the snapshot write and
\* ts[2] that of the receipt write.
ingest_positions(filename, as_of, df, ts) ==
    /\ NumUploads("positions") < MaxSnapshotUploads
    /\ LET parsed == ParsePositions(df) IN
       IF ZeroPositions(parsed.positions)
       THEN /\ resp' = [call |-> "ingest_positions", status |-> 400]
            /\ UNCHANGED <<snapshots, receipts, clock>>
       ELSE LET snap == update_one(snapshots, "as_of",
                                   SnapshotDoc(as_of, parsed, filename, df, ts[1]), ts[1])
                receipt == ReceiptDoc(snap.col, as_of, filename, df, parsed.positions, ts[2])
            IN /\ snapshots' = snap.col
               /\ receipts' = update_one(receipts, "date", receipt, ts[2]).col
               /\ clock' = ts[2]
               /\ resp' = [call |-> "ingest_positions", status |-> 200, as_of |-> as_of,
                           positions_written |-> Len(parsed.positions),
                           sha256 |-> df, receipt |-> receipt]
    /\ uploads' = Append(uploads, [kind |-> "positions", filename |-> filename,
                                   as_of |-> as_of, rows |-> df])
    /\ UNCHANGED <<activity_trades, jobs, replayVars, derivedVars>>

----------------------------------------------------------------------------
(* The lifecycle engine over the stored ledger *)

\* The filter without its "$lte": end_date is not looked at.
LifecycleMatchesNoEnd(col, start_date, end_date, ticker_filter) ==
    {i \in 1..Len(col) :
        /\ col[i].trade_date >= start_date
        /\ IsNone(ticker_filter) \/ col[i].ticker \in Val(ticker_filter)}

\* The documents col.find(q) matches: trade_date >= start_date, trade_date
\* <= end_date when an end_date is given, ticker in the filter when given.
LifecycleMatches(col, start_date, end_date, ticker_filter) ==
    {i \in 1..Len(col) :
        /\ col[i].trade_date >= start_date
        /\ IsNone(end_date) \/ col[i].trade_date <= Val(end_date)
        /\ IsNone(ticker_filter) \/ col[i].ticker \in Val(ticker_filter)}

\* .sort([("trade_date", 1), ("created_at", 1)]): every order of the matched
\* documents that ascends in (trade_date, created_at); documents equal in
\* both may come in either order.
SortKeyLeq(a, b) ==
    \/ a.trade_date < b.trade_date
    \/ a.trade_date = b.trade_date /\ a.created_at <= b.created_at

CursorOrders(col, m) ==
    {f \in [1..Cardinality(m) -> m] :
        /\ \A a, b \in 1..Cardinality(m) : a # b => f[a] # f[b]
        /\ \A a, b \in 1..Cardinality(m) : a < b => SortKeyLeq(col[f[a]], col[f[b]])}

\* The loop over rows, from the empty dicts.
RECURSIVE ReplayLoop(_, _, _, _, _)
ReplayLoop(col, order, i, st, ticker_filter) ==
    IF i > Len(order) THEN st
    ELSE ReplayLoop(col, order, i + 1,
                    LifecycleStep(st, col[order[i]], ticker_filter), ticker_filter)

\* ticker_filter: the non-empty, non-cash tickers of only_tickers.
TickerFilter(only_tickers) ==
    IF IsNone(only_tickers) THEN None
    ELSE Some({t \in Val(only_tickers) : t # "" /\ ~_is_cash_like_ticker(t)})

\* The maps the function can return: one for every order the cursor can have.
_opened_at_map_from_activity_trades(col, start_date, end_date, only_tickers) ==
    LET ticker_filter == TickerFilter(only_tickers) IN
    IF ~IsNone(ticker_filter) /\ Val(ticker_filter) = {} THEN {EmptyMap}
    ELSE {ReplayLoop(col, order, 1, [pos_qty |-> EmptyMap, opened_at |-> EmptyMap],
                     ticker_filter).opened_at :
            order \in CursorOrders(col,
                        LifecycleMatches(col, start_date, end_date, ticker_filter))}

----------------------------------------------------------------------------
(* Latest-positions read: get_latest_positions.  The response of the model *)
(* holds as_of and, per position, the snapshot's fields and opened_at; the *)
(* arguments of the lifecycle call are kept beside it.                     *)

\* _latest_snapshot_doc
_latest_snapshot_doc(col) == LatestOf(col, 1..Len(col))

\* tickers of the snapshot: non-cash and quantity > 0
SnapshotTickers(doc) ==
    {doc.positions[i].ticker : i \in {j \in 1..Len(doc.positions) :
        /\ doc.positions[j].ticker # ""
        /\ ~_is_cash_like_ticker(doc.positions[j].ticker)
        /\ doc.positions[j].quantity > 0}}

PositionOut(p, activity_opened) ==
    [ticker |-> p.ticker, name |-> p.name, quantity |-> p.quantity,
     last_price |-> p.last_price, market_value |-> p.market_value,
     avg_cost |-> p.avg_cost,
     opened_at |-> IF p.ticker \in DOMAIN activity_opened
                   THEN Some(activity_opened[p.ticker]) ELSE None]

get_latest_positions ==
    /\ LET found == _latest_snapshot_doc(snapshots) IN
       IF IsNone(found)
       THEN resp' = [call |-> "get_latest_positions", status |-> 404]
       ELSE LET doc == Val(found)
                as_of == doc.as_of
                snapshot_tickers == SnapshotTickers(doc)
            IN \E activity_opened \in _opened_at_map_from_activity_trades(
                        activity_trades, WindowStart, Some(as_of), Some(snapshot_tickers)) :
                 resp' = [call |-> "get_latest_positions", status |-> 200,
                          as_of |-> as_of,
                          data |-> [i \in 1..Len(doc.positions) |->
                                      PositionOut(doc.positions[i], activity_opened)],
                          lifecycle_call |-> [start_date |-> WindowStart,
                                              end_date |-> Some(as_of),
                                              only_tickers |-> snapshot_tickers]]
    /\ UNCHANGED <<store, clock, uploads, jobs, replayVars, derivedVars>>

----------------------------------------------------------------------------
(* Closed-trade matcher: closed_trades.  A quotient of two floats is kept  *)
(* as the pair <<numerator, denominator>>.  A value of a record that JSON  *)
(* gives as null or as a number is None or Some(number); the code gives a  *)
(* number for proceeds, cost_basis and pnl_dollars in every record.        *)

\* $match: SELL documents with trade_date >= start_date
SellsFrom(col, start_date) ==
    {i \in 1..Len(col) : col[i].side = "SELL" /\ col[i].trade_date >= start_date}

\* {"$sum": "$qty"}
RECURSIVE SumQty(_, _)
SumQty(col, g) ==
    IF g = {} THEN 0
    ELSE LET i == CHOOSE j \in g : TRUE IN col[i].qty + SumQty(col, g \ {i})

\* {"$sum": {"$cond": [price and qty are not null, price * qty, 0.0]}}
RECURSIVE SumProceeds(_, _)
SumProceeds(col, g) ==
    IF g = {} THEN 0
    ELSE LET i == CHOOSE j \in g : TRUE
         IN (IF IsNone(col[i].price) THEN 0 ELSE Val(col[i].price) * col[i].qty)
            + SumProceeds(col, g \ {i})

\* $group on (trade_date, ticker): qty_sold, proceeds and sell_count; a
\* document without a price adds 0.0 to proceeds.
SellGroup(col, m, trade_date, ticker) ==
    LET g == {i \in m : col[i].trade_date = trade_date /\ col[i].ticker = ticker} IN
    [trade_date |-> trade_date, ticker |-> ticker,
     qty_sold |-> SumQty(col, g),
     proceeds |-> SumProceeds(col, g),
     sell_count |-> Cardinality(g)]

SellGroups(col, start_date) ==
    LET m == SellsFrom(col, start_date) IN
    {SellGroup(col, m, col[i].trade_date, col[i].ticker) : i \in m}

\* The pipeline without its $limit stage.
SellDaysUnlimited(col, start_date, limit) ==
    LET G == SellGroups(col, start_date)
        n == Cardinality(G)
    IN {h \in [1..n -> G] :
          /\ \A a, b \in 1..n : a # b => h[a] # h[b]
          /\ \A a, b \in 1..n : a < b => h[a].trade_date >= h[b].trade_date}

\* $sort {trade_date: -1} and $limit: the groups in every order that
\* descends in trade_date (groups of one date in any order), cut to
\* the first `limit`.
SellDays(col, start_date, limit) ==
    LET G == SellGroups(col, start_date)
        n == Cardinality(G)
        k == IF limit < n THEN limit ELSE n
    IN {SubSeq(f, 1, k) : f \in
          {h \in [1..n -> G] :
              /\ \A a, b \in 1..n : a # b => h[a] # h[b]
              /\ \A a, b \in 1..n : a < b => h[a].trade_date >= h[b].trade_date}}

\* The query with "$lte" in the place of "$lt".
PrevSnapshotAtOrBefore(snaps, trade_date, ticker) ==
    LatestOf(snaps, {i \in 1..Len(snaps) :
        /\ snaps[i].as_of <= trade_date
        /\ \E j \in 1..Len(snaps[i].positions) : snaps[i].positions[j].ticker = ticker})

\* snaps.find_one({"as_of": {"$lt": trade_date}, "positions.ticker": ticker},
\*                sort=[("as_of", -1)])
PrevSnapshot(snaps, trade_date, ticker) ==
    LatestOf(snaps, {i \in 1..Len(snaps) :
        /\ snaps[i].as_of < trade_date
        /\ \E j \in 1..Len(snaps[i].positions) : snaps[i].positions[j].ticker = ticker})

\* the first position of the ticker in the snapshot
FirstPos(positions, ticker) ==
    positions[MinOf({j \in 1..Len(positions) : positions[j].ticker = ticker})]

\* The test of line 106 with the tolerance left out.
IsPartialTrimExact(qty_sold, prev_qty) == qty_sold < prev_qty

\* qty_sold + tol < prev_qty: a partial trim, no record
IsPartialTrim(qty_sold, prev_qty) == qty_sold + Tol < prev_qty

\* A percentage of 0 where there is no positive cost basis.
PnlPctZeroWithoutBasis(pnl_dollars, cost_basis) ==
    IF cost_basis > 0 THEN Some(<<pnl_dollars, cost_basis>>) ELSE Some(<<0, 1>>)

\* pnl_pct = (pnl_dollars / cost_basis) if cost_basis > 0 else None
PnlPct(pnl_dollars, cost_basis) ==
    IF cost_basis > 0 THEN Some(<<pnl_dollars, cost_basis>>) ELSE None

\* The record of one group, given the lifecycle map of its ticker.
ClosedTradeRecord(s, prev_as_of, prev_pos, opened_map) ==
    LET prev_qty == prev_pos.quantity
        avg_cost == OrZero(prev_pos.avg_cost)
        closed_qty == IF prev_qty > 0 THEN prev_qty ELSE s.qty_sold
        cost_basis == avg_cost * closed_qty
        pnl_dollars == s.proceeds - cost_basis
        opened == IF s.ticker \in DOMAIN opened_map THEN Some(opened_map[s.ticker])
                  ELSE None
    IN [ticker |-> s.ticker,
        open_date |-> opened,
        close_date |-> s.trade_date,
        days_held |-> IF IsNone(opened) THEN None
                      ELSE Some(s.trade_date - Val(opened)),
        qty |-> closed_qty,
        avg_cost |-> IF avg_cost = 0 THEN None ELSE Some(avg_cost),
        sell_price |-> Some(<<s.proceeds, s.qty_sold>>),
        proceeds |-> Some(s.proceeds),
        cost_basis |-> Some(cost_basis),
        pnl_dollars |-> Some(pnl_dollars),
        pnl_pct |-> PnlPct(pnl_dollars, cost_basis),
        prev_snapshot_as_of |-> prev_as_of,
        sell_count |-> s.sell_count]

\* The iteration with end_date = trade_date in the lifecycle call.
MatchGroupCutoffAtClose(col, snaps, s) ==
    IF s.ticker = "" \/ _is_cash_like_ticker(s.ticker) THEN {None}
    ELSE IF s.qty_sold <= 0 THEN {None}
    ELSE LET prev_snap == PrevSnapshot(snaps, s.trade_date, s.ticker) IN
         IF IsNone(prev_snap) THEN {None}
         ELSE LET prev_as_of == Val(prev_snap).as_of
                  prev_pos == FirstPos(Val(prev_snap).positions, s.ticker)
              IN IF IsPartialTrim(s.qty_sold, prev_pos.quantity) THEN {None}
                 ELSE {Some(ClosedTradeRecord(s, prev_as_of, prev_pos, opened_map)) :
                         opened_map \in _opened_at_map_from_activity_trades(
                             col, WindowStart, Some(s.trade_date), Some({s.ticker}))}

\* One iteration of the loop over sell_days: the records it can append, or
\* None when it appends nothing.
MatchGroup(col, snaps, s) ==
    IF s.ticker = "" \/ _is_cash_like_ticker(s.ticker) THEN {None}
    ELSE IF s.qty_sold <= 0 THEN {None}
    ELSE LET prev_snap == PrevSnapshot(snaps, s.trade_date, s.ticker) IN
         IF IsNone(prev_snap) THEN {None}
         ELSE LET prev_as_of == Val(prev_snap).as_of
                  prev_pos == FirstPos(Val(prev_snap).positions, s.ticker)
              IN IF IsPartialTrim(s.qty_sold, prev_pos.quantity) THEN {None}
                 ELSE {Some(ClosedTradeRecord(s, prev_as_of, prev_pos, opened_map)) :
                         opened_map \in _opened_at_map_from_activity_trades(
                             col, WindowStart, Some(prev_as_of), Some({s.ticker}))}

\* The loop over sell_days: every list `out` it can build.
RECURSIVE MatchLoop(_, _, _, _)
MatchLoop(col, snaps, sell_days, i) ==
    IF i > Len(sell_days) THEN {<<>>}
    ELSE {(IF IsNone(r) THEN <<>> ELSE <<Val(r)>>) \o rest :
            r \in MatchGroup(col, snaps, sell_days[i]),
            rest \in MatchLoop(col, snaps, sell_days, i + 1)}

\* out.sort(key=close_date, reverse=True): descending and stable.
RECURSIVE SortNewestFirst(_)
SortNewestFirst(out) ==
    IF out = <<>> THEN <<>>
    ELSE LET x == out[Len(out)]
             init == SortNewestFirst(SubSeq(out, 1, Len(out) - 1))
             k == Cardinality({j \in 1..Len(init) : init[j].close_date >= x.close_date})
         IN SubSeq(init, 1, k) \o <<x>> \o SubSeq(init, k + 1, Len(init))

\* One call of the handler; the request and the groups the aggregation
\* returned are kept beside the response.
closed_trades(limit, start_date) ==
    /\ \E sell_days \in SellDays(activity_trades, start_date, limit) :
         \E out \in MatchLoop(activity_trades, snapshots, sell_days, 1) :
            resp' = [call |-> "closed_trades",
                     data |-> SortNewestFirst(out),
                     count |-> Len(out),
                     limit |-> limit, start_date |-> start_date,
                     sell_days |-> sell_days]
    /\ UNCHANGED <<store, clock, uploads, jobs, replayVars, derivedVars>>

----------------------------------------------------------------------------
(* The readers over a store filled by uploads.  One client at a time; each *)
(* stored document is written one millisecond after the one before it.    *)

\* Activity files of one row: buys of 50 before and after the snapshot
\* dates, sells of a whole holding of 100, of parts of it, of all but the
\* tolerance, with and without a price, and a sell of a second ticker.
ReadTradeRows ==
    {ActivityRow("You bought", Iso(d), "AAPL", Num(50), Num(4), BlankDate, "", Blank) :
        d \in {1, 2, 3}}
    \cup {ActivityRow("You sold", Iso(3), "AAPL", Num(q), Num(5), BlankDate, "", Blank) :
        q \in {100, 60, 40, 99}}
    \cup {ActivityRow("You sold", Iso(2), "AAPL", Num(100), Num(5), BlankDate, "", Blank),
          ActivityRow("You sold", Iso(4), "AAPL", Num(100), Num(5), BlankDate, "", Blank),
          ActivityRow("You sold", Iso(4), "AAPL", Num(100), Dash, BlankDate, "", Blank),
          ActivityRow("You sold", Iso(4), "XYZ", Num(10), Num(5), BlankDate, "", Blank)}

ReadTradeFiles == {<<r>> : r \in ReadTradeRows}

\* Positions tables: a holding of 100 with and without a cost basis, an
\* emptied holding, and a table of a second ticker with a negative cost
\* basis, cash and pending activity.
ReadTables ==
    {<<PositionRow("AAPL", "APPLE INC", Num(100), Num(5), Num(500), Num(4))>>,
     <<PositionRow("AAPL", "APPLE INC", Num(100), Num(5), Num(500), Blank)>>,
     <<PositionRow("AAPL", "APPLE INC", Num(0), Num(5), Num(0), Num(4))>>,
     <<PositionRow("XYZ", "", Num(10), Num(5), Num(50), Paren(5)),
       PositionRow("SPAXX**", "HELD IN MONEY MARKET", Num(1), Num(1), Num(1), Blank),
       PositionRow("Pending Activity", "", Blank, Blank, Num(7), Blank)>>}

ReadAsOf == {2, 3}

ReadLimits == {1, 500}       \* limit: 1 <= limit <= 5000, default 500

ReadStartDates == {WindowStart, 4}

Ticks(n) == [i \in 1..n |-> clock + i]

InitRead ==
    /\ StoreEmpty
    /\ uploads = <<>>
    /\ jobs = <<>>
    /\ ReplayIdle

NextRead ==
    \/ \E df \in ReadTradeFiles : ingest_activity("a.csv", df, Ticks(Len(df)))
    \/ \E df \in ReadTables, as_of \in ReadAsOf :
          ingest_positions("p.csv", as_of, df, Ticks(2))
    \/ get_latest_positions
    \/ \E limit \in ReadLimits, start_date \in ReadStartDates :
          closed_trades(limit, start_date)

SpecRead == InitRead /\ [][NextRead]_vars

----------------------------------------------------------------------------
(* Claims about the lifecycle cutoff *)

PositionsAnswered == resp.call = "get_latest_positions" /\ resp.status = 200

\* The mapping a positions response carries: ticker -> opened_at, where present.
RespOpened ==
    LET has == {i \in 1..Len(resp.data) : ~IsNone(resp.data[i].opened_at)} IN
    [t \in {resp.data[i].ticker : i \in has} |->
        Val(resp.data[MinOf({i \in has : resp.data[i].ticker = t})].opened_at)]

\* The mappings a replay of the selected trades of the tickers T can give,
\* in the order (trade_date, created_at).
C8_Replays(selected, T) ==
    {ReplayLoop(activity_trades, order, 1,
                [pos_qty |-> EmptyMap, opened_at |-> EmptyMap], Some(T)).opened_at :
        order \in CursorOrders(activity_trades, selected)}

\* The trades of the tickers T dated at or before the cutoff c.
C8_Trades(c, T) ==
    {i \in 1..Len(activity_trades) :
        /\ activity_trades[i].ticker \in T
        /\ activity_trades[i].trade_date <= c}

\* Those of them dated "2025-01-01" or later.
C8_TradesInWindow(c, T) ==
    {i \in C8_Trades(c, T) : WindowStart <= activity_trades[i].trade_date}

\* The ledger without its trades dated after c.
C8_LedgerUpTo(c) == SelectSeq(activity_trades, LAMBDA d : d.trade_date <= c)

\* The call of the latest-positions read has the cutoff of the snapshot it
\* reports, the latest one, and trades after the cutoff do not matter to it.
C8_CutoffIsSnapshotDate ==
    LET c == resp.as_of
        T == resp.lifecycle_call.only_tickers
    IN /\ resp.lifecycle_call.end_date = Some(c)
       /\ \A i \in 1..Len(snapshots) : snapshots[i].as_of <= c
       /\ \E i \in 1..Len(snapshots) : snapshots[i].as_of = c
       /\ _opened_at_map_from_activity_trades(activity_trades, WindowStart, Some(c), Some(T))
            = _opened_at_map_from_activity_trades(C8_LedgerUpTo(c), WindowStart,
                                                  Some(c), Some(T))

\* C8 as stated: the lifecycle result with cutoff c is the replay of the
\* trades with trade_date <= c and of no others, trades dated after c never
\* change it, and the latest-positions read calls it with c = the as_of of
\* the snapshot it reports.
C8_LifecycleCutoff_AsStated ==
    PositionsAnswered =>
        /\ C8_CutoffIsSnapshotDate
        /\ RespOpened \in C8_Replays(C8_Trades(resp.as_of,
                                               resp.lifecycle_call.only_tickers),
                                     resp.lifecycle_call.only_tickers)

\* C8, amended: the lifecycle result with cutoff c is the replay of the
\* trades with "2025-01-01" <= trade_date <= c (c included) and of no
\* others; trades dated after c never change it; and the latest-positions
\* read calls it with c = the as_of of the snapshot it reports.
C8_LifecycleCutoff ==
    PositionsAnswered =>
        /\ C8_CutoffIsSnapshotDate
        /\ RespOpened \in C8_Replays(C8_TradesInWindow(resp.as_of,
                                               resp.lifecycle_call.only_tickers),
                                     resp.lifecycle_call.only_tickers)

\* A positions response with an open date, over a ledger that has a trade
\* of a reported ticker on the cutoff day and one after it.
C8_Witness ==
    /\ PositionsAnswered
    /\ RespOpened # EmptyMap
    /\ \E i, j \in 1..Len(activity_trades) :
          /\ activity_trades[i].ticker \in resp.lifecycle_call.only_tickers
          /\ activity_trades[i].trade_date = resp.as_of
          /\ activity_trades[j].ticker \in resp.lifecycle_call.only_tickers
          /\ activity_trades[j].trade_date > resp.as_of

----------------------------------------------------------------------------
(* Claims about the closed-trade matcher *)

MatcherAnswered == resp.call = "closed_trades"

\* The total quantity of the SELLs of ticker t dated d in the ledger.
DayTotal(d, t) ==
    SumQty(activity_trades,
           {i \in 1..Len(activity_trades) :
               /\ activity_trades[i].side = "SELL"
               /\ activity_trades[i].trade_date = d
               /\ activity_trades[i].ticker = t})

\* The quantity the prior snapshot of (d, t) records, when there is one.
PriorQty(d, t) ==
    FirstPos(Val(PrevSnapshot(snapshots, d, t)).positions, t).quantity

HasPrior(d, t) == ~IsNone(PrevSnapshot(snapshots, d, t))

Reported(d, t) ==
    \E k \in 1..Len(resp.data) : resp.data[k].close_date = d /\ resp.data[k].ticker = t

\* The (sell date, ticker) groups the call worked on.
Groups == {<<resp.sell_days[k].trade_date, resp.sell_days[k].ticker>> :
              k \in 1..Len(resp.sell_days)}

\* C9: for a (sell date, ticker) group whose prior snapshot records a
\* quantity P > 0, a closed-trade record is produced if and only if the
\* total quantity sold on that date is at least P minus the tolerance.
C9_FullCloseTest ==
    MatcherAnswered =>
        \A g \in Groups :
            HasPrior(g[1], g[2]) /\ PriorQty(g[1], g[2]) > 0 =>
                (Reported(g[1], g[2]) <=> DayTotal(g[1], g[2]) >= PriorQty(g[1], g[2]) - Tol)

\* One response over a prior holding of 100: the day with a total of 100
\* sold has a record, the day with a total of 60 sold has none.
C9_Witness ==
    /\ MatcherAnswered
    /\ \E g, h \in Groups :
          /\ HasPrior(g[1], g[2]) /\ PriorQty(g[1], g[2]) = 100
          /\ DayTotal(g[1], g[2]) = 100 /\ Reported(g[1], g[2])
          /\ HasPrior(h[1], h[2]) /\ PriorQty(h[1], h[2]) = 100
          /\ DayTotal(h[1], h[2]) = 60 /\ ~Reported(h[1], h[2])

\* BUYs minus SELLs of ticker t dated after day a and up to day d.
NetTraded(a, d, t) ==
    LET in(side) == {i \in 1..Len(activity_trades) :
                        /\ activity_trades[i].side = side
                        /\ activity_trades[i].ticker = t
                        /\ a < activity_trades[i].trade_date
                        /\ activity_trades[i].trade_date <= d}
    IN SumQty(activity_trades, in("BUY")) - SumQty(activity_trades, in("SELL"))

\* C10: for every closed-trade record reported for (close date d, ticker
\* t), the holding of t implied by the store, the prior snapshot's
\* quantity plus the BUYs and minus the SELLs of t after the prior snapshot
\* date and up to d, is zero (to the tolerance) at the end of d.
C10_OnlyFullyExited ==
    MatcherAnswered =>
        \A k \in 1..Len(resp.data) :
            LET rec == resp.data[k]
                held == PriorQty(rec.close_date, rec.ticker)
                          + NetTraded(rec.prev_snapshot_as_of, rec.close_date, rec.ticker)
            IN Abs(held) <= Tol

----------------------------------------------------------------------------
(* Claims about the prior snapshot and the values of a record *)

Holds(i, t) ==
    \E j \in 1..Len(snapshots[i].positions) : snapshots[i].positions[j].ticker = t

\* The snapshots that contain ticker t and are dated strictly before d.
PriorSnapshots(d, t) ==
    {i \in 1..Len(snapshots) : snapshots[i].as_of < d /\ Holds(i, t)}

\* The position of t in snapshot i.
HeldPos(i, t) ==
    snapshots[i].positions[MinOf({j \in 1..Len(snapshots[i].positions) :
                                     snapshots[i].positions[j].ticker = t})]

\* Record rec takes its prior quantity and average cost from snapshot i.
TakenFrom(rec, i) ==
    LET pos == HeldPos(i, rec.ticker) IN
    /\ rec.prev_snapshot_as_of = snapshots[i].as_of
    /\ rec.qty = IF pos.quantity > 0 THEN pos.quantity
                 ELSE DayTotal(rec.close_date, rec.ticker)
    /\ rec.avg_cost = IF OrZero(pos.avg_cost) = 0 THEN None ELSE pos.avg_cost

\* C11: for each (sell date d, ticker t) group the prior quantity and the
\* average cost come from the snapshot of the greatest as_of strictly less
\* than d among those that contain t; a snapshot dated d or later is never
\* used; without such a snapshot the group has no record.
C11_PriorSnapshotSelection ==
    MatcherAnswered =>
        /\ \A k \in 1..Len(resp.data) :
              LET rec == resp.data[k]
                  prior == PriorSnapshots(rec.close_date, rec.ticker)
              IN \E i \in prior :
                    /\ \A j \in prior : snapshots[j].as_of <= snapshots[i].as_of
                    /\ TakenFrom(rec, i)
        /\ \A g \in Groups : PriorSnapshots(g[1], g[2]) = {} => ~Reported(g[1], g[2])

\* One response with a record whose ticker is also in a snapshot of its
\* close date, and a record that has two prior snapshots.
C11_Witness ==
    /\ MatcherAnswered
    /\ \E a, b \in 1..Len(resp.data) :
          /\ \E i \in 1..Len(snapshots) :
                Holds(i, resp.data[a].ticker) /\ snapshots[i].as_of = resp.data[a].close_date
          /\ Cardinality(PriorSnapshots(resp.data[b].close_date, resp.data[b].ticker)) = 2

\* The snapshot a record names as its prior snapshot.
PriorOf(rec) ==
    CHOOSE i \in 1..Len(snapshots) : snapshots[i].as_of = rec.prev_snapshot_as_of

\* The cost basis of a record from the store: average cost times closed
\* quantity, an average cost that is absent counting as 0.
BasisOf(rec) == OrZero(HeldPos(PriorOf(rec), rec.ticker).avg_cost) * rec.qty

\* C12: in every closed-trade record pnl_pct is absent exactly when the
\* cost basis is zero or negative (so also when the prior position has no
\* avg_cost), and is otherwise (proceeds - cost basis) / cost basis.
C12_PnlPctAbsentWithoutBasis ==
    MatcherAnswered =>
        \A k \in 1..Len(resp.data) :
            LET rec == resp.data[k]
                basis == BasisOf(rec)
            IN /\ IsNone(rec.pnl_pct) <=> basis <= 0
               /\ basis > 0 =>
                    Val(rec.pnl_pct)[1] * basis
                        = (Val(rec.proceeds) - basis) * Val(rec.pnl_pct)[2]

\* One response with a record whose prior position has no avg_cost and no
\* pnl_pct, and a record with a positive cost basis and a pnl_pct.
C12_Witness ==
    /\ MatcherAnswered
    /\ \E a, b \in 1..Len(resp.data) :
          /\ IsNone(HeldPos(PriorOf(resp.data[a]), resp.data[a].ticker).avg_cost)
          /\ IsNone(resp.data[a].pnl_pct)
          /\ BasisOf(resp.data[b]) > 0
          /\ ~IsNone(resp.data[b].pnl_pct)

\* The SELLs of the group of a record that have no price.
UnpricedSells(rec) ==
    {i \in 1..Len(activity_trades) :
        /\ activity_trades[i].side = "SELL"
        /\ activity_trades[i].trade_date = rec.close_date
        /\ activity_trades[i].ticker = rec.ticker
        /\ IsNone(activity_trades[i].price)}

\* C13: when the prior snapshot's position has no avg_cost, the record's
\* cost_basis and pnl amount are absent; when a SELL of the group has no
\* price, the record's proceeds and sell price are absent.
C13_AbsentMoneyPropagates ==
    MatcherAnswered =>
        \A k \in 1..Len(resp.data) :
            LET rec == resp.data[k] IN
            /\ IsNone(HeldPos(PriorOf(rec), rec.ticker).avg_cost) =>
                  IsNone(rec.cost_basis) /\ IsNone(rec.pnl_dollars)
            /\ UnpricedSells(rec) # {} =>
                  IsNone(rec.proceeds) /\ IsNone(rec.sell_price)

----------------------------------------------------------------------------
(* Claims about the holding period and the shape of the response *)

\* The open dates the lifecycle engine can give for ticker t with cutoff c.
OpenDates(c, t) ==
    {IF t \in DOMAIN m THEN Some(m[t]) ELSE None :
        m \in C8_Replays(C8_TradesInWindow(c, {t}), {t})}

\* C14: open_date is the lifecycle result for the ticker with cutoff equal
\* to the prior snapshot's date, trades dated after the prior snapshot
\* never influence it, and in every record with open_date present,
\* open_date <= prior snapshot date < close_date and
\* days_held = close_date - open_date >= 1.
C14_HoldingPeriod ==
    MatcherAnswered =>
        \A k \in 1..Len(resp.data) :
            LET rec == resp.data[k]
                c == rec.prev_snapshot_as_of
            IN /\ rec.open_date \in OpenDates(c, rec.ticker)
               /\ _opened_at_map_from_activity_trades(
                      activity_trades, WindowStart, Some(c), Some({rec.ticker}))
                    = _opened_at_map_from_activity_trades(
                          C8_LedgerUpTo(c), WindowStart, Some(c), Some({rec.ticker}))
               /\ ~IsNone(rec.open_date) =>
                    /\ Val(rec.open_date) <= c
                    /\ c < rec.close_date
                    /\ rec.days_held = Some(rec.close_date - Val(rec.open_date))
                    /\ Val(rec.days_held) >= 1

\* A record with an open date, of a position bought on the day of the
\* prior snapshot and sold after it.
C14_Witness ==
    /\ MatcherAnswered
    /\ \E k \in 1..Len(resp.data) :
          /\ resp.data[k].open_date = Some(resp.data[k].prev_snapshot_as_of)
          /\ resp.data[k].days_held = Some(1)

\* C15: the records come newest close first (non-increasing close_date),
\* at most one per (close_date, ticker), every close_date >= start_date,
\* and at most `limit` of them.
C15_OrderedAndLimited ==
    MatcherAnswered =>
        /\ \A a, b \in 1..Len(resp.data) :
              a < b => /\ resp.data[a].close_date >= resp.data[b].close_date
                       /\ <<resp.data[a].close_date, resp.data[a].ticker>>
                            # <<resp.data[b].close_date, resp.data[b].ticker>>
        /\ \A k \in 1..Len(resp.data) : resp.data[k].close_date >= resp.start_date
        /\ Len(resp.data) <= resp.limit
        /\ resp.count = Len(resp.data)

\* A response of two records with different close dates.
C15_Witness ==
    /\ MatcherAnswered
    /\ Len(resp.data) = 2
    /\ resp.data[1].close_date > resp.data[2].close_date

----------------------------------------------------------------------------
(* The snapshot writer under sequential positions uploads *)

\* Positions tables: a holding with a second position that has no value,
\* a cash line and a pending-activity row of -500.00; a smaller holding; a
\* holding and a row whose description cell, not its symbol cell, says
\* pending; a table of a pending row and a disclaimer row only.
SnapTables ==
    {<<PositionRow("AAPL", "APPLE INC", Num(100), Num(5), Num(500), Num(4)),
       PositionRow("MSFT", "MICROSOFT CORP", Num(1), Blank, Blank, Blank),
       PositionRow("SPAXX**", "HELD IN MONEY MARKET", Num(20), Num(1), Num(20), Blank),
       PositionRow("Pending Activity", "", Blank, Blank, Paren(500), Blank)>>,
     <<PositionRow("AAPL", "APPLE INC", Num(60), Num(5), Num(300), Num(4))>>,
     <<PositionRow("AAPL", "APPLE INC", Num(100), Num(5), Num(500), Num(4)),
       PositionRow("XYZ", "Pending Activity", Num(1), Blank, Paren(500), Blank)>>,
     <<PositionRow("Pending Activity", "", Blank, Blank, Num(7), Blank),
       PositionRow("", "Date downloaded 01/02/2025", Blank, Blank, Blank, Blank)>>}

SnapAsOf == {2, 3}

\* The times of the two writes of one call: the clock never goes back, and
\* two utcnow() calls may fall into the same millisecond.
SnapTimes ==
    {x \in (clock..clock + 1) \X (clock..clock + 2) : x[2] - x[1] \in {0, 1}}

InitSnapshot ==
    /\ StoreEmpty
    /\ uploads = <<>>
    /\ jobs = <<>>
    /\ ReplayIdle

NextSnapshot ==
    \E df \in SnapTables, as_of \in SnapAsOf, ts \in SnapTimes :
        ingest_positions("p.csv", as_of, df, ts)

SpecSnapshot == InitSnapshot /\ [][NextSnapshot]_vars

----------------------------------------------------------------------------
(* Claims about the snapshot writer *)

\* The positions uploads for date d in which a row survived filtering.
SuccessfulUploads(d) ==
    {k \in 1..Len(uploads) :
        /\ uploads[k].kind = "positions"
        /\ uploads[k].as_of = d
        /\ ParsePositions(uploads[k].rows).positions # <<>>}

\* C16: after any sequence of positions uploads the store holds at most
\* one snapshot per as_of, a date has a snapshot when an upload for it
\* succeeded, and the snapshot's positions, pending_amount and totals are
\* those of the most recent successful upload for its date.
C16_OneSnapshotPerDate ==
    /\ \A i, j \in 1..Len(snapshots) : snapshots[i].as_of = snapshots[j].as_of => i = j
    /\ \A d \in SnapAsOf :
          SuccessfulUploads(d) # {} <=> \E i \in 1..Len(snapshots) : snapshots[i].as_of = d
    /\ \A i \in 1..Len(snapshots) :
          LET last == MaxOf(SuccessfulUploads(snapshots[i].as_of))
              parsed == ParsePositions(uploads[last].rows)
          IN /\ snapshots[i].positions = parsed.positions
             /\ snapshots[i].pending_amount = parsed.pending_amount
             /\ snapshots[i].total_value
                  = SumValues(parsed.positions, 1, TRUE) + parsed.pending_amount
             /\ snapshots[i].non_cash_positions_value
                  = SumValues(parsed.positions, 1, FALSE)
             /\ snapshots[i].source.sha256 = uploads[last].rows

\* Two successful uploads of different tables for one date, and one snapshot.
C16_Witness ==
    /\ Len(snapshots) = 1
    /\ Cardinality(SuccessfulUploads(snapshots[1].as_of)) = 2
    /\ uploads[1].rows # uploads[2].rows

\* The sum of the market values of the positions at the indices S, a
\* position without a value counting as 0.
RECURSIVE ValueOf(_, _)
ValueOf(positions, S) ==
    IF S = {} THEN 0
    ELSE LET i == CHOOSE j \in S : TRUE
         IN (IF IsNone(positions[i].market_value) THEN 0
             ELSE Val(positions[i].market_value))
            + ValueOf(positions, S \ {i})

\* C17: in every stored snapshot total_value is the sum of the market
\* values of all its positions, the "**" ones included, plus
\* pending_amount, and non_cash_positions_value is the same sum over the
\* positions whose ticker does not end in "**".
C17_TotalsRecomputed ==
    \A i \in 1..Len(snapshots) :
        LET ps == snapshots[i].positions IN
        /\ snapshots[i].total_value
             = ValueOf(ps, 1..Len(ps)) + snapshots[i].pending_amount
        /\ snapshots[i].non_cash_positions_value
             = ValueOf(ps, {j \in 1..Len(ps) : ps[j].ticker \notin CashLike})

\* A snapshot with a cash line, a position without a value and a pending
\* amount that is not 0.
C17_Witness ==
    \E i \in 1..Len(snapshots) :
        /\ snapshots[i].pending_amount # 0
        /\ \E j, k \in 1..Len(snapshots[i].positions) :
              /\ snapshots[i].positions[j].ticker \in CashLike
              /\ IsNone(snapshots[i].positions[k].market_value)

\* A row whose symbol cell or whose description cell contains "pending".
SaysPending(r) == r.symbol \in PendingCells \/ r.desc \in PendingCells

RECURSIVE RowValues(_, _)
RowValues(df, S) ==
    IF S = {} THEN 0
    ELSE LET i == CHOOSE j \in S : TRUE
         IN OrZero(_to_float(df[i].value)) + RowValues(df, S \ {i})

\* C18: every row of a positions table whose symbol cell or description
\* cell contains "pending" adds its value to the snapshot's pending_amount
\* and produces no position: the snapshot of a date holds, from the most
\* recent successful upload for it, the sum of the values of those rows
\* and the positions of the other rows.
C18_PendingExclusion ==
    \A i \in 1..Len(snapshots) :
        LET df == uploads[MaxOf(SuccessfulUploads(snapshots[i].as_of))].rows
            pending == {j \in 1..Len(df) : SaysPending(df[j])}
        IN /\ snapshots[i].pending_amount = RowValues(df, pending)
           /\ snapshots[i].positions
                = ParsePositions(SelectSeq(df, LAMBDA r : ~SaysPending(r))).positions

\* The upload a step adds to the history.
Uploaded == uploads'[Len(uploads')]

\* C19: a positions upload in which no row survives filtering fails and
\* writes nothing: the snapshots and the receipts are as before the call.
C19_ZeroPositionsWriteNothing ==
    [][(/\ Len(uploads') = Len(uploads) + 1
        /\ Uploaded.kind = "positions"
        /\ ParsePositions(Uploaded.rows).positions = <<>>)
       => /\ resp'.call = "ingest_positions"
          /\ resp'.status = 400
          /\ snapshots' = snapshots
          /\ receipts' = receipts]_vars

\* A failed upload of a table of pending and disclaimer rows only, for a
\* date that has a snapshot with positions.
C19_Witness ==
    /\ resp.call = "ingest_positions"
    /\ resp.status = 400
    /\ \E r \in 1..Len(uploads[Len(uploads)].rows) :
          IsPendingRow(uploads[Len(uploads)].rows[r])
    /\ \E i \in 1..Len(snapshots) :
          /\ snapshots[i].as_of = uploads[Len(uploads)].as_of
          /\ snapshots[i].positions # <<>>

----------------------------------------------------------------------------
(* The ledger writer over files with rows that fail the row-level tests *)

\* A buy and a sell that pass, and rows that fail one test each: an action
\* that is no trade, a date that does not parse, a blank date, a symbol
\* that is not symbol-shaped, a quantity of 0 and a quantity of "-".
SkipRows ==
    {ActivityRow("You bought", Iso(2), "AAPL", Num(2), Num(5), BlankDate, "", Blank),
     ActivityRow("You sold", Mdy(3), "aapl", Paren(2), Num(5), BlankDate, "", Blank),
     ActivityRow("Dividend", Iso(3), "AAPL", Num(1), Num(5), BlankDate, "", Blank),
     ActivityRow("You bought", BadDate, "AAPL", Num(2), Num(5), BlankDate, "", Blank),
     ActivityRow("You bought", BlankDate, "AAPL", Num(2), Num(5), BlankDate, "", Blank),
     ActivityRow("You bought", Iso(2), "$12", Num(2), Num(5), BlankDate, "", Blank),
     ActivityRow("You bought", Iso(2), "AAPL", Num(0), Num(5), BlankDate, "", Blank),
     ActivityRow("You sold", Iso(3), "AAPL", Dash, Num(5), BlankDate, "", Blank)}

SkipFiles == SeqsUpTo(SkipRows, MaxRows)

InitSkip ==
    /\ StoreEmpty
    /\ uploads = <<>>
    /\ jobs = <<>>
    /\ ReplayIdle

NextSkip ==
    \E df \in SkipFiles :
        \E ts \in RowTimes(Len(df), clock) : ingest_activity("a.csv", df, ts)

SpecSkip == InitSkip /\ [][NextSkip]_vars

----------------------------------------------------------------------------
(* Claims about row-level skips *)

\* A row fails a row-level test: its action is no buy or sell, its date
\* does not parse, its ticker is not symbol-shaped, or its quantity is 0
\* or does not parse.
FailsRowTest(r) ==
    \/ lower(r.action) \notin {"you bought", "you sold"}
    \/ r.run_date.fmt \notin {"iso", "mdy"}
    \/ _clean_symbol(r.symbol) \notin TickerShaped \cup CashLike
    \/ r.qty.form \notin {"plain", "paren"}
    \/ r.qty.num = 0

\* C20: an activity upload completes with seen = the number of rows and
\* skipped = the number of rows that fail a row-level test; the skipped
\* rows leave the ledger unchanged and every other row is upserted,
\* whatever rows come before it.
C20_RowIssuesNeverAbort ==
    [][(Len(uploads') = Len(uploads) + 1 /\ Uploaded.kind = "activity")
       => LET df == Uploaded.rows
              bad == {i \in 1..Len(df) : FailsRowTest(df[i])}
              good == (1..Len(df)) \ bad
          IN /\ resp'.call = "ingest_activity"
             /\ resp'.rows_total_seen = Len(df)
             /\ resp'.rows_skipped = Cardinality(bad)
             /\ resp'.rows_written <= Cardinality(good)
             /\ StoredIds(activity_trades')
                  = StoredIds(activity_trades) \cup {trade_id(df[i], df) : i \in good}
             /\ \A i \in good : \E k \in 1..Len(activity_trades') :
                   /\ activity_trades'[k].trade_id = trade_id(df[i], df)
                   /\ activity_trades'[k].source.sha256 = df
             /\ good = {} => activity_trades' = activity_trades]_vars

\* An upload of a row that fails followed by a row that passes: one
\* skipped, one written.
C20_Witness ==
    /\ resp.call = "ingest_activity"
    /\ resp.rows_skipped = 1
    /\ resp.rows_written = 1
    /\ Len(uploads[Len(uploads)].rows) = 2
    /\ FailsRowTest(uploads[Len(uploads)].rows[1])

----------------------------------------------------------------------------
(* The ledger writer over rows whose quantity cells carry a sign *)

\* Buys and sells of the same trade written with a positive quantity, with
\* a quantity in parentheses and with a minus sign, and a row of quantity 0.
SignRows ==
    {ActivityRow(a, Iso(2), "AAPL", q, Num(5), BlankDate, "", Blank) :
        a \in {"You bought", "You sold"},
        q \in {Num(2), Paren(2), Num(0 - 3), Num(0)}}

SignFiles == SeqsUpTo(SignRows, MaxRows)

InitSigns ==
    /\ StoreEmpty
    /\ uploads = <<>>
    /\ jobs = <<>>
    /\ ReplayIdle

NextSigns ==
    \E df \in SignFiles :
        \E ts \in RowTimes(Len(df), clock) : ingest_activity("a.csv", df, ts)

SpecSigns == InitSigns /\ [][NextSigns]_vars

----------------------------------------------------------------------------
(* Claims about the stored side and quantity *)

\* The rows of the file a stored record was last written from that carry
\* the record's action text and a quantity cell of the record's magnitude.
RowsOf(d) ==
    {i \in 1..Len(d.source.sha256) :
        /\ d.source.sha256[i].action = d.source.action_raw
        /\ Abs(d.source.sha256[i].qty.num) = d.qty}

\* The quantity cell of a row is written as a negative number.
WrittenNegative(r) == r.qty.form = "paren" \/ r.qty.num < 0

\* C21: every stored trade record has side BUY or SELL and a strictly
\* positive quantity; the quantity is the magnitude of the cell of a row
\* of its file, and the side is the one the action text of that row
\* names, whatever the sign of the cell.
C21_SideAndPositiveQty ==
    \A k \in 1..Len(activity_trades) :
        LET d == activity_trades[k] IN
        /\ d.side \in {"BUY", "SELL"}
        /\ d.qty > 0
        /\ RowsOf(d) # {}
        /\ d.side = (IF lower(d.source.action_raw) = "you bought" THEN "BUY" ELSE "SELL")
        /\ lower(d.source.action_raw) \in {"you bought", "you sold"}

\* A stored BUY written from a row whose quantity cell is negative, next to a
\* stored SELL written from a row whose quantity cell is positive.
C21_Witness ==
    /\ \E k \in 1..Len(activity_trades) :
         /\ activity_trades[k].side = "BUY"
         /\ \A i \in RowsOf(activity_trades[k]) :
               WrittenNegative(activity_trades[k].source.sha256[i])
    /\ \E k \in 1..Len(activity_trades) :
         /\ activity_trades[k].side = "SELL"
         /\ \A i \in RowsOf(activity_trades[k]) :
               ~WrittenNegative(activity_trades[k].source.sha256[i])

----------------------------------------------------------------------------
(* Returns engine: legacy_equity_curve over db["performance_daily"].  A     *)
(* float is kept as the exact fraction <<numerator, denominator>>; a field *)
(* of a stored document is None when it is missing or holds no number.     *)

RECURSIVE GCD(_, _)
GCD(a, b) == IF b = 0 THEN a ELSE GCD(b, a % b)

\* The fraction in lowest terms with a positive denominator.
QNorm(q) ==
    LET p == IF q[2] < 0 THEN <<0 - q[1], 0 - q[2]>> ELSE q
        g == GCD(Abs(p[1]), p[2])
    IN <<p[1] \div g, p[2] \div g>>
QMul(a, b) == QNorm(<<a[1] * b[1], a[2] * b[2]>>)
QOnePlus(r) == <<r[2] + r[1], r[2]>>
QEq(a, b) == QNorm(a) = QNorm(b)

RECURSIVE Pow10(_)
Pow10(k) == IF k = 0 THEN 1 ELSE 10 * Pow10(k - 1)

\* round(x, ndigits): the nearest multiple of 10^-ndigits, ties to even.
round(x, ndigits) ==
    LET q == QNorm(x)
        n == (q[1] % q[2]) * Pow10(ndigits)
        lo == (q[1] \div q[2]) * Pow10(ndigits) + (n \div q[2])
        rest == n % q[2]
        k == IF 2 * rest < q[2] THEN lo
             ELSE IF 2 * rest > q[2] THEN lo + 1
             ELSE IF lo % 2 = 0 THEN lo ELSE lo + 1
    IN <<k, Pow10(ndigits)>>

\* A document of performance_daily as the projection of the handler reads it.
PerfDoc(date, balance, net_flow) ==
    [date |-> date, balance |-> balance, net_flow |-> net_flow,
     dollar_change |-> None, pct_change |-> None, pct_change_ret |-> None,
     roth_ret |-> None, voo_close |-> None, voo |-> None,
     qqq_close |-> None, qqq |-> None]

\* .sort("date", -1).limit(window): the documents with fewer than window
\* later ones.
LatestPerf(col, window) ==
    {i \in 1..Len(col) :
        Cardinality({k \in 1..Len(col) : col[k].date > col[i].date}) < window}

\* reversed(...): the selected documents, oldest first.
RECURSIVE AscByDate(_, _)
AscByDate(col, S) ==
    IF S = {} THEN <<>>
    ELSE LET i == CHOOSE j \in S : \A k \in S : col[j].date <= col[k].date
         IN <<col[i]>> \o AscByDate(col, S \ {i})

\* "a or b" on two optional numbers: a missing or zero a gives b.
OrElse(a, b) == IF IsNone(a) \/ Val(a) = 0 THEN b ELSE a

\* The first of pct_change, pct_change_ret and roth_ret that is not None.
FirstReturn(r) ==
    IF ~IsNone(r.pct_change) THEN r.pct_change
    ELSE IF ~IsNone(r.pct_change_ret) THEN r.pct_change_ret
    ELSE r.roth_ret

\* A net_flow that is never read: the flow of every day is 0.
DailyRowNoFlow(r) ==
    [date |-> r.date,
     balance |-> Val(r.balance),
     net_flow |-> 0,
     dollar_change |-> r.dollar_change,
     pct_change |-> FirstReturn(r),
     voo_close |-> OrElse(r.voo_close, r.voo),
     qqq_close |-> OrElse(r.qqq_close, r.qqq)]

\* One entry of daily; float(r.get("net_flow") or 0.0).
DailyRow(r) ==
    [date |-> r.date,
     balance |-> Val(r.balance),
     net_flow |-> IF IsNone(r.net_flow) THEN 0 ELSE Val(r.net_flow),
     dollar_change |-> r.dollar_change,
     pct_change |-> FirstReturn(r),
     voo_close |-> OrElse(r.voo_close, r.voo),
     qqq_close |-> OrElse(r.qqq_close, r.qqq)]

\* The loop that builds daily: rows without a numeric balance are dropped.
RECURSIVE DailyLoop(_, _)
DailyLoop(sorted, i) ==
    IF i > Len(sorted) THEN <<>>
    ELSE IF IsNone(sorted[i].balance) THEN DailyLoop(sorted, i + 1)
    ELSE <<DailyRow(sorted[i])>> \o DailyLoop(sorted, i + 1)

\* (c - p) / p when both closes are numbers and p > 0, else 0.
CloseReturn(p, c) ==
    IF ~IsNone(p) /\ ~IsNone(c) /\ Val(p) > 0
    THEN <<Val(c) - Val(p), Val(p)>> ELSE <<0, 1>>

\* The return of day i in the modes index, voo_index and qqq_index.
IndexReturn(daily, i, mode) ==
    IF mode = "index"
    THEN (IF IsNone(daily[i].pct_change) THEN <<0, 1>> ELSE Val(daily[i].pct_change))
    ELSE IF mode = "voo_index"
    THEN CloseReturn(daily[i - 1].voo_close, daily[i].voo_close)
    ELSE CloseReturn(daily[i - 1].qqq_close, daily[i].qqq_close)

RECURSIVE IndexLoop(_, _, _, _)
IndexLoop(daily, i, idx, mode) ==
    IF i > Len(daily) THEN <<>>
    ELSE LET next == QMul(idx, QOnePlus(IndexReturn(daily, i, mode)))
         IN <<[date |-> daily[i].date, balance |-> round(next, 4)]>>
            \o IndexLoop(daily, i + 1, next, mode)

RECURSIVE PnlLoop(_, _, _)
PnlLoop(daily, i, running) ==
    IF i > Len(daily) THEN <<>>
    ELSE LET next == IF IsNone(daily[i].dollar_change) THEN running
                     ELSE running + Val(daily[i].dollar_change)
         IN <<[date |-> daily[i].date, balance |-> round(<<next, 1>>, 2)]>>
            \o PnlLoop(daily, i + 1, next)

\* ret = (cur_bal - flow - prev_bal) / prev_bal if prev_bal else 0.0
TwrReturn(prev_bal, cur_bal, flow) ==
    IF prev_bal # 0 THEN QNorm(<<cur_bal - flow - prev_bal, prev_bal>>) ELSE <<0, 1>>

RECURSIVE TwrLoop(_, _, _)
TwrLoop(daily, i, idx) ==
    IF i > Len(daily) THEN <<>>
    ELSE LET ret == TwrReturn(daily[i - 1].balance, daily[i].balance, daily[i].net_flow)
             next == QMul(idx, QOnePlus(ret))
         IN <<[date |-> daily[i].date, balance |-> round(next, 4)]>>
            \o TwrLoop(daily, i + 1, next)

\* The series of one mode.
Series(daily, mode) ==
    IF mode = "equity"
    THEN [i \in 1..Len(daily) |-> [date |-> daily[i].date, balance |-> <<daily[i].balance, 1>>]]
    ELSE IF mode = "pnl" THEN PnlLoop(daily, 1, 0)
    ELSE IF daily = <<>> THEN <<>>
    ELSE IF mode = "twr"
    THEN <<[date |-> daily[1].date, balance |-> <<100, 1>>]>> \o TwrLoop(daily, 2, <<100, 1>>)
    ELSE <<[date |-> daily[1].date, balance |-> <<100, 1>>]>>
         \o IndexLoop(daily, 2, <<100, 1>>, mode)

Modes == {"equity", "twr", "pnl", "index", "voo_index", "qqq_index"}

\* GET /api/portfolio/equity-curve; as_of is None where the code gives a dash.
legacy_equity_curve(window, mode) ==
    /\ LET daily == DailyLoop(AscByDate(performance_daily,
                                        LatestPerf(performance_daily, window)), 1)
           series == Series(daily, mode)
       IN resp' = [call |-> "legacy_equity_curve",
                   series |-> series,
                   count |-> Len(series),
                   as_of |-> IF series = <<>> THEN None
                             ELSE Some(series[Len(series)].date),
                   mode |-> mode,
                   window |-> window]
    /\ UNCHANGED <<store, clock, uploads, jobs, replayVars, derivedVars>>

----------------------------------------------------------------------------
(* The returns engine over stored daily rows *)

MaxPerfRows == 3   \* documents of performance_daily

\* Days with balances 0, 20, 21 and 22 (in units of 50 dollars), with a
\* net_flow of -2, 0 or 1 or without one, without a balance, and with the
\* fields of the other modes.
PerfDocs ==
    {PerfDoc(d, Some(b), None) : d \in 1..MaxPerfRows, b \in {0, 20}}
    \cup {PerfDoc(d, Some(22), Some(f)) : d \in 1..MaxPerfRows, f \in {0, 1}}
    \cup {PerfDoc(d, Some(21), Some(0 - 2)) : d \in 1..MaxPerfRows}
    \cup {PerfDoc(d, None, Some(1)) : d \in 1..MaxPerfRows}
    \cup {[PerfDoc(d, Some(20), None) EXCEPT
              !.dollar_change = Some(2), !.pct_change = Some(<<1, 10>>),
              !.voo_close = Some(40 + d), !.qqq = Some(30 + d)] : d \in 1..MaxPerfRows}
    \cup {[PerfDoc(d, Some(22), None) EXCEPT
              !.roth_ret = Some(<<0 - 1, 20>>), !.voo_close = Some(0),
              !.voo = Some(41), !.qqq_close = Some(0)] : d \in 1..MaxPerfRows}

\* Collections of documents with one document per date (the writer upserts
\* by date), in any insertion order.
PerfCollections ==
    {c \in SeqsUpTo(PerfDocs, MaxPerfRows) :
        \A i, j \in 1..Len(c) : i # j => c[i].date # c[j].date}

Windows == {2, 365}    \* window: 1 <= window <= 20000, default 365

InitCurve ==
    /\ activity_trades = <<>>
    /\ snapshots = <<>>
    /\ receipts = <<>>
    /\ clock = 0
    /\ resp = [call |-> "none"]
    /\ prices_latest = <<>>
    /\ prices_meta = None
    /\ performance_daily \in PerfCollections
    /\ uploads = <<>>
    /\ jobs = <<>>
    /\ ReplayIdle

NextCurve == \E window \in Windows, mode \in Modes : legacy_equity_curve(window, mode)

SpecCurve == InitCurve /\ [][NextCurve]_vars

----------------------------------------------------------------------------
(* Claims about the twr mode *)

CurveAnswered(mode) == resp.call = "legacy_equity_curve" /\ resp.mode = mode

\* The stored days the answered curve is drawn from: the resp.window latest
\* dates, those with a balance.
CurveDays ==
    {i \in 1..Len(performance_daily) :
        /\ ~IsNone(performance_daily[i].balance)
        /\ Cardinality({k \in 1..Len(performance_daily) :
                performance_daily[k].date > performance_daily[i].date}) < resp.window}

\* The k-th of those days in date order.
DayAt(k) ==
    performance_daily[CHOOSE i \in CurveDays :
        Cardinality({j \in CurveDays :
            performance_daily[j].date < performance_daily[i].date}) = k - 1]

\* The single-period return of day k >= 2.  As the specification words it, the
\* return is zero when the day has no net_flow; as amended, a day without a
\* net_flow has the flow 0.
PeriodReturn(k, asWorded) ==
    LET prev == Val(DayAt(k - 1).balance)
        bal == Val(DayAt(k).balance)
        flow == DayAt(k).net_flow
    IN IF prev = 0 THEN <<0, 1>>
       ELSE IF IsNone(flow)
            THEN (IF asWorded THEN <<0, 1>> ELSE QNorm(<<bal - prev, prev>>))
            ELSE QNorm(<<bal - Val(flow) - prev, prev>>)

\* The index of day k: 100 times the product of (1 + return) of days 2..k.
RECURSIVE TwrIndex(_, _)
TwrIndex(k, asWorded) ==
    IF k = 1 THEN <<100, 1>>
    ELSE QMul(TwrIndex(k - 1, asWorded), QOnePlus(PeriodReturn(k, asWorded)))

TwrSeriesIs(asWorded) ==
    /\ Len(resp.series) = Cardinality(CurveDays)
    /\ \A k \in 1..Len(resp.series) :
          /\ resp.series[k].date = DayAt(k).date
          /\ QEq(resp.series[k].balance, round(TwrIndex(k, asWorded), 4))

\* C24 as worded: the index is 100 on the first date and is multiplied each
\* later day by 1 + (current_balance - net_flow - previous_balance) /
\* previous_balance, the return being zero when the previous balance is zero
\* or the day's net_flow is missing (values to 4 decimals).
C24_TwrIndex_AsWorded == CurveAnswered("twr") => TwrSeriesIs(TRUE)

\* C24 amended: the same, the return being zero when the previous balance
\* is zero, and a missing net_flow counting as a flow of 0.
C24_TwrIndex == CurveAnswered("twr") => TwrSeriesIs(FALSE)

\* A twr curve of three days: one after a balance of 0, and one without a
\* net_flow after a different balance that is not 0.
C24_Witness ==
    /\ CurveAnswered("twr")
    /\ Len(resp.series) = 3
    /\ \E k \in 2..3 : Val(DayAt(k - 1).balance) = 0
    /\ \E k \in 2..3 :
          /\ IsNone(DayAt(k).net_flow)
          /\ Val(DayAt(k - 1).balance) # 0
          /\ DayAt(k).balance # DayAt(k - 1).balance
    /\ \E k \in 2..3 : ~IsNone(DayAt(k).net_flow) /\ Val(DayAt(k).net_flow) # 0

----------------------------------------------------------------------------
(* Live prices: ensure_prices_fresh behind GET /api/portfolio/prices-refresh *)

REFRESH_EVERY_SEC == 2100    \* 35 * 60
MaxRefreshes == 2            \* price refreshes in one behaviour

\* What _get_any_price gives for one ticker: a price, None, or an exception.
FetchOutcomes ==
    {[kind |-> "price", price |-> 7],
     [kind |-> "missing", price |-> 0],
     [kind |-> "error", price |-> 0]}

\* _latest_snapshot_tickers: the non-cash tickers of the latest snapshot.
_latest_snapshot_tickers(doc) ==
    {doc.positions[i].ticker : i \in {j \in 1..Len(doc.positions) :
        /\ doc.positions[j].ticker # ""
        /\ ~_is_cash_like_ticker(doc.positions[j].ticker)}}

\* The as_of of the stored price of a ticker, None without one.
PriceAsOf(col, t) ==
    LET m == Matching(col, "ticker", t)
    IN IF m = {} THEN None ELSE Some(col[MaxOf(m)].as_of)

\* (now - ts).total_seconds() > max_age_sec, the clock being in milliseconds
Stale(now, ts, max_age_sec) == now - ts > max_age_sec * 1000

\* The tickers to fetch.
Need(col, tickers, now, force, max_age_sec) ==
    {t \in tickers :
        \/ force
        \/ IsNone(PriceAsOf(col, t))
        \/ Stale(now, Val(PriceAsOf(col, t)), max_age_sec)}

\* The orders in which the gathered fetches of a set of tickers can complete.
Orders(S) ==
    {o \in [1..Cardinality(S) -> S] : \A i, j \in 1..Cardinality(S) : i # j => o[i] # o[j]}

\* A write of the fetched price into the positions of the latest snapshot.
PriceWriteIntoSnapshot(db, t, price, now2) ==
    LET latest == CHOOSE i \in 1..Len(db.snapshots) :
                      \A k \in 1..Len(db.snapshots) :
                          db.snapshots[k].as_of <= db.snapshots[i].as_of
        overlay(p) == IF p.ticker = t
                      THEN [p EXCEPT !.last_price = Some(price),
                                     !.market_value = Some(price * p.quantity)]
                      ELSE p
    IN [db EXCEPT !.snapshots[latest].positions =
                      [k \in 1..Len(@) |-> overlay(@[k])]]

\* prices_col.update_one({"ticker": t}, {"$set": ..., "$setOnInsert": ...}, upsert=True)
PriceWrite(db, t, price, now2) ==
    [db EXCEPT !.prices_latest =
        update_one(@, "ticker",
                   [ticker |-> t, price |-> price, as_of |-> now2, source |-> "polygon"],
                   now2).col]

\* The gathered fetch_one calls, in the order they complete; the k-th
\* completes k milliseconds after now.
RECURSIVE FetchLoop(_, _, _, _, _, _)
FetchLoop(db, order, k, outcome, now, acc) ==
    IF k > Len(order) THEN [db |-> db, updated |-> acc.updated,
                            missing |-> acc.missing, errors |-> acc.errors]
    ELSE LET t == order[k]
             got == outcome[t]
         IN IF got.kind = "error"
            THEN FetchLoop(db, order, k + 1, outcome, now,
                           [acc EXCEPT !.errors = Append(@, t)])
            ELSE IF got.kind = "missing"
            THEN FetchLoop(db, order, k + 1, outcome, now,
                           [acc EXCEPT !.missing = Append(@, t)])
            ELSE FetchLoop(PriceWrite(db, t, got.price, now + k), order, k + 1,
                           outcome, now, [acc EXCEPT !.updated = @ + 1])

RefreshResp(status, refreshed, reason, updated) ==
    [call |-> "prices_refresh", status |-> status, refreshed |-> refreshed,
     reason |-> reason, updated |-> updated]

\* GET /api/portfolio/prices-refresh: ensure_prices_fresh(max_age_sec, 2000, force).
\* now is the utcnow() of the call; outcome is what the price service gives.
prices_refresh(api_key, force, max_age_sec, now, outcome) ==
    /\ NumUploads("refresh") < MaxRefreshes
    /\ uploads' = Append(uploads, [kind |-> "refresh"])
    /\ IF ~api_key
       THEN /\ resp' = RefreshResp(200, FALSE, "Missing POLYGON_API_KEY", 0)
            /\ UNCHANGED <<snapshots, prices_latest, prices_meta, clock>>
       ELSE IF IsNone(_latest_snapshot_doc(snapshots))
       THEN /\ resp' = RefreshResp(404, FALSE, "No snapshots found", 0)
            /\ UNCHANGED <<snapshots, prices_latest, prices_meta, clock>>
       ELSE LET tickers == _latest_snapshot_tickers(Val(_latest_snapshot_doc(snapshots)))
                need == Need(prices_latest, tickers, now, force, max_age_sec)
            IN IF tickers = {}
               THEN /\ resp' = RefreshResp(200, FALSE, "No tickers in latest snapshot", 0)
                    /\ UNCHANGED <<snapshots, prices_latest, prices_meta, clock>>
               ELSE IF ~force /\ ~IsNone(prices_meta)
                       /\ ~Stale(now, Val(prices_meta), max_age_sec)
               THEN /\ resp' = RefreshResp(200, FALSE, "Fresh enough", 0)
                    /\ clock' = now
                    /\ UNCHANGED <<snapshots, prices_latest, prices_meta>>
               ELSE IF need = {}
               THEN /\ resp' = RefreshResp(200, FALSE, "All tickers fresh", 0)
                    /\ prices_meta' = Some(now)
                    /\ clock' = now
                    /\ UNCHANGED <<snapshots, prices_latest>>
               ELSE \E order \in Orders(need) :
                      LET out == FetchLoop([snapshots |-> snapshots,
                                            prices_latest |-> prices_latest],
                                           order, 1, outcome, now,
                                           [updated |-> 0, missing |-> <<>>, errors |-> <<>>])
                      IN /\ snapshots' = out.db.snapshots
                         /\ prices_latest' = out.db.prices_latest
                         /\ prices_meta' = Some(now)
                         /\ clock' = now + Len(order)
                         /\ resp' = RefreshResp(200, TRUE, "", out.updated)
    /\ UNCHANGED <<activity_trades, receipts, jobs, replayVars, performance_daily>>

----------------------------------------------------------------------------
(* Dashboard: dashboard_latest *)

\* _snapshot_net_value: every position's value, the "**" lines included,
\* plus the pending amount.
_snapshot_net_value(doc) == SumValues(doc.positions, 1, TRUE) + doc.pending_amount

\* GET /api/history/dashboard-latest
dashboard_latest ==
    /\ LET found == _latest_snapshot_doc(snapshots) IN
       IF IsNone(found)
       THEN resp' = [call |-> "dashboard_latest", status |-> 404]
       ELSE LET doc == Val(found)
                prev_doc == LatestOf(snapshots,
                               {i \in 1..Len(snapshots) : snapshots[i].as_of < doc.as_of})
                today_total == _snapshot_net_value(doc)
                prev_total == IF IsNone(prev_doc) THEN today_total
                              ELSE _snapshot_net_value(Val(prev_doc))
                non_cash == SumValues(doc.positions, 1, FALSE)
                cash_from_positions == SumValues(doc.positions, 1, TRUE) - non_cash
            IN resp' = [call |-> "dashboard_latest", status |-> 200,
                        snapshot_as_of |-> doc.as_of,
                        total_value |-> _snapshot_net_value(doc),
                        cash_spaxx |-> cash_from_positions,
                        pending_amount |-> doc.pending_amount,
                        non_cash_positions_value |-> non_cash,
                        todays_pnl_total |-> today_total - prev_total]
    /\ UNCHANGED <<store, clock, uploads, jobs, replayVars, derivedVars>>

----------------------------------------------------------------------------
(* Uploads, reads and price refreshes over one store *)

\* The activity file uploaded before the behaviour starts.
OverlayTrades ==
    <<ActivityRow("You bought", Iso(2), "AAPL", Num(100), Num(4), BlankDate, "", Blank),
      ActivityRow("You sold", Iso(3), "AAPL", Num(100), Num(5), BlankDate, "", Blank)>>

OverlayTables ==
    {<<PositionRow("AAPL", "APPLE INC", Num(100), Num(5), Num(500), Num(4)),
       PositionRow("XYZ", "", Num(10), Num(5), Num(50), Num(5)),
       PositionRow("SPAXX**", "HELD IN MONEY MARKET", Num(20), Num(1), Num(20), Blank)>>,
     <<PositionRow("XYZ", "", Num(10), Num(6), Num(60), Num(5))>>}

OverlayAsOf == {2, 3}

\* The price service answers for the tickers of the tables: a price for
\* both, or a price for one and no price or an exception for the other.
OverlayOutcomes ==
    {o \in [{"AAPL", "XYZ"} -> FetchOutcomes] :
        o["AAPL"].kind = "price" \/ o["XYZ"].kind = "price"}

\* The time of a call: the next millisecond, or after the prices went stale.
OverlayNow == {clock + 1, clock + REFRESH_EVERY_SEC * 1000 + 1}

\* The store after one upload of OverlayTrades, its rows written at 1 and 2.
InitOverlay ==
    /\ activity_trades = IngestRows(<<>>, OverlayTrades, 1, <<1, 2>>, "a.csv",
                                    [written |-> 0, skipped |-> 0]).col
    /\ snapshots = <<>>
    /\ receipts = <<>>
    /\ clock = 2
    /\ resp = [call |-> "none"]
    /\ prices_latest = <<>>
    /\ prices_meta = None
    /\ performance_daily = <<PerfDoc(1, Some(20), None), PerfDoc(2, Some(22), Some(1))>>
    /\ uploads = <<[kind |-> "activity", filename |-> "a.csv", rows |-> OverlayTrades,
                    fresh |-> TRUE, written |-> 2, stored |-> 2]>>
    /\ jobs = <<>>
    /\ ReplayIdle

NextOverlay ==
    \/ \E df \in OverlayTables, as_of \in OverlayAsOf :
          ingest_positions("p.csv", as_of, df, Ticks(2))
    \/ get_latest_positions
    \/ closed_trades(500, WindowStart)
    \/ dashboard_latest
    \/ \E mode \in {"equity", "twr"} : legacy_equity_curve(365, mode)
    \/ \E api_key, force \in BOOLEAN, now \in OverlayNow, outcome \in OverlayOutcomes :
          prices_refresh(api_key, force, REFRESH_EVERY_SEC, now, outcome)

SpecOverlay == InitOverlay /\ [][NextOverlay]_vars

----------------------------------------------------------------------------
(* Claims about the reads and the price overlay *)

ReadCalls ==
    {"get_latest_positions", "closed_trades", "dashboard_latest",
     "legacy_equity_curve", "prices_refresh"}

\* C22: a step of latest positions (with its opened-at inference), of the
\* dashboard, of the closed-trade matcher, of the equity curve or of the
\* price refresh leaves every snapshot, trade record and receipt as it
\* was; a fetched price goes to the price collections only.
C22_ReadsAreReadOnly ==
    [][resp'.call \in ReadCalls
       => /\ activity_trades' = activity_trades
          /\ snapshots' = snapshots
          /\ receipts' = receipts
          /\ performance_daily' = performance_daily]_vars

\* A refresh has stored a fetched price of a ticker whose snapshot position
\* still carries the uploaded price.
C22_Witness ==
    /\ resp.call = "prices_refresh"
    /\ resp.refreshed
    /\ resp.updated > 0
    /\ activity_trades # <<>>
    /\ \E k \in 1..Len(prices_latest) :
         LET doc == Val(_latest_snapshot_doc(snapshots))
         IN \E i \in 1..Len(doc.positions) :
               /\ doc.positions[i].ticker = prices_latest[k].ticker
               /\ doc.positions[i].last_price # Some(prices_latest[k].price)

----------------------------------------------------------------------------
(* One closed_trades call in flight beside uploads.  The handler awaits    *)
(* the aggregation, then for each group the find_one on snapshots and the  *)
(* find of the lifecycle replay: other handlers run between these reads.   *)
(* No session, transaction or snapshot read concern is used.               *)

\* What the reads of the call can see of the store at one instant.
StoreNow == [activity |-> activity_trades, snaps |-> snapshots]

\* The call before its first read.
MatcherIdle ==
    [phase |-> "idle", limit |-> 0, start_date |-> 0, sell_days |-> <<>>, i |-> 1,
     out |-> <<>>, prev |-> None, seen |-> {}, at |-> 0]

\* An upload runs before the call, or between two of its reads; `at` is the
\* number of uploads made when the call last read, so that every state of
\* the store the call overlaps is in `seen`.
UploadMayRun ==
    \/ jobs[1].phase = "idle"
    \/ jobs[1].phase # "done" /\ Len(uploads) = jobs[1].at

\* 1) sell_days = await activity.aggregate(pipeline).to_list(length=limit)
MatchAggregate(limit, start_date) ==
    /\ jobs[1].phase = "idle"
    /\ \E sell_days \in SellDays(activity_trades, start_date, limit) :
         jobs' = <<[jobs[1] EXCEPT !.phase = "snapshot", !.limit = limit,
                                   !.start_date = start_date, !.sell_days = sell_days,
                                   !.seen = {StoreNow}, !.at = Len(uploads)]>>
    /\ UNCHANGED <<store, clock, resp, uploads, replayVars, derivedVars>>

\* 2) prev_snap = await snaps.find_one(...) and the tests up to the
\* lifecycle call, for the group the loop is at.
MatchFindSnapshot ==
    LET j == jobs[1]
        s == j.sell_days[j.i]
        prev_snap == PrevSnapshot(snapshots, s.trade_date, s.ticker)
        skipped == \/ s.ticker = "" \/ _is_cash_like_ticker(s.ticker)
                   \/ s.qty_sold <= 0
                   \/ IsNone(prev_snap)
                   \/ IsPartialTrim(s.qty_sold,
                                    FirstPos(Val(prev_snap).positions, s.ticker).quantity)
    IN /\ j.phase = "snapshot" /\ j.i <= Len(j.sell_days)
       /\ jobs' = <<[j EXCEPT !.phase = IF skipped THEN "snapshot" ELSE "lifecycle",
                              !.i = IF skipped THEN @ + 1 ELSE @,
                              !.prev = IF skipped THEN None ELSE prev_snap,
                              !.seen = @ \cup {StoreNow}, !.at = Len(uploads)]>>
       /\ UNCHANGED <<store, clock, resp, uploads, replayVars, derivedVars>>

\* 4) opened_map = await _opened_at_map_from_activity_trades(...) and the
\* record appended to out.
MatchReplay ==
    LET j == jobs[1]
        s == j.sell_days[j.i]
        prev_snap == Val(j.prev)
    IN /\ j.phase = "lifecycle"
       /\ \E opened_map \in _opened_at_map_from_activity_trades(
                 activity_trades, WindowStart, Some(prev_snap.as_of), Some({s.ticker})) :
            jobs' = <<[j EXCEPT !.phase = "snapshot", !.i = @ + 1, !.prev = None,
                                !.out = Append(@, ClosedTradeRecord(s, prev_snap.as_of,
                                                  FirstPos(prev_snap.positions, s.ticker),
                                                  opened_map)),
                                !.seen = @ \cup {StoreNow}, !.at = Len(uploads)]>>
       /\ UNCHANGED <<store, clock, resp, uploads, replayVars, derivedVars>>

\* out.sort(...); return {"data": out, "count": len(out)}
MatchReturn ==
    LET j == jobs[1] IN
    /\ j.phase = "snapshot" /\ j.i > Len(j.sell_days)
    /\ jobs' = <<[j EXCEPT !.phase = "done", !.seen = @ \cup {StoreNow}]>>
    /\ resp' = [call |-> "closed_trades", data |-> SortNewestFirst(j.out),
                count |-> Len(j.out), limit |-> j.limit, start_date |-> j.start_date,
                sell_days |-> j.sell_days]
    /\ UNCHANGED <<store, clock, uploads, replayVars, derivedVars>>

\* A sell of 100 AAPL; and a buy of 50 before the snapshot with a second
\* sell on the day of the first.
PitTradeFiles ==
    {<<ActivityRow("You sold", Iso(4), "AAPL", Num(100), Num(5), BlankDate, "", Blank)>>,
     <<ActivityRow("You bought", Iso(2), "AAPL", Num(50), Num(4), BlankDate, "", Blank),
       ActivityRow("You sold", Iso(4), "AAPL", Num(60), Num(5), BlankDate, "", Blank)>>}

PitTables ==
    {<<PositionRow("AAPL", "APPLE INC", Num(100), Num(5), Num(500), Num(4))>>,
     <<PositionRow("AAPL", "APPLE INC", Num(150), Num(5), Num(750), Num(3))>>}

PitAsOf == {3}

InitPit ==
    /\ StoreEmpty
    /\ uploads = <<>>
    /\ jobs = <<MatcherIdle>>
    /\ ReplayIdle

NextPit ==
    \/ UploadMayRun /\ \E df \in PitTradeFiles :
                          ingest_activity("a.csv", df, Ticks(Len(df)))
    \/ UploadMayRun /\ \E df \in PitTables, as_of \in PitAsOf :
                          ingest_positions("p.csv", as_of, df, Ticks(2))
    \/ MatchAggregate(500, WindowStart)
    \/ MatchFindSnapshot
    \/ MatchReplay
    \/ MatchReturn

SpecPit == InitPit /\ [][NextPit]_vars

----------------------------------------------------------------------------
(* Claims about the point-in-time read *)

\* What closed_trades returns when all its reads see the store st.
ResultsOn(st, limit, start_date) ==
    {SortNewestFirst(out) :
        out \in UNION {MatchLoop(st.activity, st.snaps, sell_days, 1) :
                         sell_days \in SellDays(st.activity, start_date, limit)}}

\* C23: the result of a closed_trades call that ran beside uploads is a
\* result of the same request on one of the states the store was in
\* during the call.
C23_PointInTimeRead ==
    jobs[1].phase = "done"
      => \E st \in jobs[1].seen :
            resp.data \in ResultsOn(st, jobs[1].limit, jobs[1].start_date)

----------------------------------------------------------------------------
(* Schema detector: _pick_columns_for_positions and _repair_shift_if_needed *)
(* over a table of header labels and rows of cells.  A column is its index *)
(* in the header, 0 standing for None.                                      *)

TextCell(s) == [s |-> s, form |-> "text", num |-> 0]
NumCell(n) == [s |-> "12", form |-> "plain", num |-> n]   \* str(v) is digits

\* The words of the detector's keyword and reject lists that _norm(label) holds.
Words(label) ==
    CASE label = "Symbol" -> {"symbol"}
      [] label = "Ticker" -> {"ticker"}
      [] label = "Description" -> {"description"}
      [] label = "Quantity" -> {"quantity"}
      [] label = "Shares" -> {"shares"}
      [] label = "Last Price" -> {"last price", "price"}
      [] label = "Price" -> {"price"}
      [] label = "Current Value" -> {"current value", "value"}
      [] label = "Market Value" -> {"market value", "value"}
      [] label = "Today's Gain/Loss Dollar" -> {"today", "gain/loss dollar", "gain", "loss"}
      [] label = "Today Gain/Loss Dollar" -> {"today", "gain/loss dollar", "gain", "loss"}
      [] label = "Total Gain/Loss Dollar"
           -> {"total gain/loss dollar", "gain/loss dollar", "gain", "loss"}
      [] label = "Average Cost Basis" -> {"average cost basis", "cost basis", "average"}
      [] label = "Cost Basis Total" -> {"cost basis total", "cost basis"}
      [] label = "Percent Of Account" -> {"percent of account", "percent", "account"}
      [] label = "Account Name" -> {"account name", "account"}
      [] OTHER -> {}

\* The first column whose normalised label equals the normalised name.
_find_col_exact(t, name) ==
    LET m == {c \in 1..Len(t.columns) : t.columns[c] = name}
    IN IF m = {} THEN 0 ELSE MinOf(m)

\* The first column that holds a keyword and no reject word.
_find_col_contains(t, contains_any, reject_any) ==
    LET m == {c \in 1..Len(t.columns) :
                /\ Words(t.columns[c]) \cap contains_any # {}
                /\ Words(t.columns[c]) \cap reject_any = {}}
    IN IF m = {} THEN 0 ELSE MinOf(m)

\* uniq(cols): without None and repeats, in order.
RECURSIVE uniq(_)
uniq(cols) ==
    IF cols = <<>> THEN <<>>
    ELSE LET init == uniq(SubSeq(cols, 1, Len(cols) - 1))
             c == cols[Len(cols)]
         IN IF c = 0 \/ \E k \in 1..Len(init) : init[k] = c THEN init
            ELSE Append(init, c)

\* Cleaned symbols longer than 12 characters.
LongSymbols == {"PENDINGACTIVITY"}

\* What one cell adds to the score of its column.
CellScore(kind, v) ==
    LET sym == _clean_symbol(v.s)
        x == _to_float(v)
    IN IF kind = "symbol"
       THEN (IF sym = "" THEN 0
             ELSE (IF _looks_like_symbol(sym) THEN 4 ELSE 0)
                  - (IF sym \in LongSymbols THEN 2 ELSE 0))
       ELSE IF IsNone(x) THEN 0
       ELSE IF kind = "qty" THEN (IF Abs(Val(x)) <= 1000000 THEN 3 ELSE 0 - 1)
       ELSE IF kind = "price" THEN (IF 0 <= Val(x) /\ Val(x) <= 100000 THEN 2 ELSE 0)
       ELSE (IF Abs(Val(x)) <= 50000000 THEN 2 ELSE 0)

RECURSIVE SumScores(_, _, _, _)
SumScores(t, c, k, kind) ==
    IF k > Len(t.rows) THEN 0
    ELSE CellScore(kind, t.rows[k][c]) + SumScores(t, c, k + 1, kind)

\* _col_score_symbol, _col_score_qty, _col_score_price, _col_score_value
ColScore(t, c, kind) ==
    LET nums == {k \in 1..Len(t.rows) : ~IsNone(_to_float(t.rows[k][c]))}
        n == Cardinality(nums)
        neg == Cardinality({k \in nums : Val(_to_float(t.rows[k][c])) < 0})
    IN SumScores(t, c, 1, kind)
       - (IF kind = "price" /\ n > 0 /\ neg * 100 > 15 * n THEN 20 ELSE 0)
       - (IF kind = "value" /\ n > 0 /\ neg * 100 > 25 * n THEN 10 ELSE 0)

\* _pick_best: the first candidate of the highest score.
RECURSIVE PickLoop(_, _, _, _, _, _)
PickLoop(t, candidates, k, kind, best, best_score) ==
    IF k > Len(candidates) THEN best
    ELSE LET sc == ColScore(t, candidates[k], kind)
         IN IF best = 0 \/ sc > best_score
            THEN PickLoop(t, candidates, k + 1, kind, candidates[k], sc)
            ELSE PickLoop(t, candidates, k + 1, kind, best, best_score)

\* The candidates with every column in the place of an empty list
\* ("uniq([...]) or list(df.columns)").
OrAllColumns(t, matches) ==
    IF matches = <<>> THEN [c \in 1..Len(t.columns) |-> c] ELSE matches

_pick_best(t, matches, kind) == PickLoop(t, OrAllColumns(t, matches), 1, kind, 0, 0)

\* x if x is a column, else the fallback ("if not col_x: col_x = ...").
OrCol(c, fallback) == IF c # 0 THEN c ELSE fallback

NoGain == {"change", "gain", "loss", "percent", "%"}

_pick_columns_for_positions(t) ==
    [symbol |-> OrCol(_find_col_exact(t, "Symbol"),
                  _pick_best(t, uniq(<<_find_col_contains(t, {"symbol", "ticker"}, {"cusip"})>>),
                             "symbol")),
     desc |-> OrCol(_find_col_exact(t, "Description"),
                  _find_col_contains(t, {"description", "security"},
                                     {"account", "account name"})),
     qty |-> OrCol(_find_col_exact(t, "Quantity"),
                  _pick_best(t, uniq(<<_find_col_contains(t, {"quantity", "qty", "shares"},
                                                          {"%", "percent"})>>), "qty")),
     price |-> OrCol(_find_col_exact(t, "Last Price"),
                  _pick_best(t, uniq(<<_find_col_contains(t, {"last price"}, NoGain),
                                       _find_col_contains(t, {"price"}, NoGain)>>), "price")),
     value |-> OrCol(_find_col_exact(t, "Current Value"),
                  _pick_best(t, uniq(<<_find_col_contains(t, {"current value", "market value",
                                                              "position value"}, NoGain),
                                       _find_col_contains(t, {"value"}, NoGain)>>), "value")),
     cost |-> OrCol(_find_col_exact(t, "Cost Basis Total"),
                  _find_col_contains(t, {"cost basis total", "cost basis"},
                                     {"average", "account"})),
     avg |-> OrCol(_find_col_exact(t, "Average Cost Basis"),
                  _find_col_contains(t, {"average cost basis"}, {"account"})),
     day |-> OrCol(_find_col_exact(t, "Today's Gain/Loss Dollar"),
                  _find_col_contains(t, {"today", "gain/loss dollar"}, {"percent", "%"})),
     total |-> OrCol(_find_col_exact(t, "Total Gain/Loss Dollar"),
                  _find_col_contains(t, {"total gain/loss dollar"}, {"percent", "%"})),
     weight |-> OrCol(_find_col_exact(t, "Percent Of Account"),
                  _find_col_contains(t, {"percent of account", "weight"}, {}))]

\* _ticker_like_rate as the pair <<good, seen>>.
_ticker_like_rate(t, c) ==
    LET seen == {k \in 1..Len(t.rows) : _clean_symbol(t.rows[k][c].s) # ""}
    IN <<Cardinality({k \in seen : _looks_like_symbol(_clean_symbol(t.rows[k][c].s))}),
         Cardinality(seen)>>

\* The column of this very label, else the fallback.
LabelOr(t, label, fallback) ==
    LET m == {c \in 1..Len(t.columns) : t.columns[c] = label}
    IN IF m = {} THEN fallback ELSE MinOf(m)

\* _repair_shift_if_needed: with an "Account Name" column that looks like
\* tickers while the symbol column does not, every field moves one label left.
_repair_shift_if_needed(t, cols) ==
    LET acct == LabelOr(t, "Account Name", 0)
        sym_rate == _ticker_like_rate(t, cols.symbol)
        acct_rate == _ticker_like_rate(t, acct)
    IN IF cols.symbol = 0 \/ acct = 0 THEN cols
       ELSE IF (sym_rate[2] = 0 \/ sym_rate[1] * 100 < 15 * sym_rate[2])
               /\ acct_rate[2] > 0 /\ acct_rate[1] * 100 > 40 * acct_rate[2]
       THEN [symbol |-> acct,
             desc |-> LabelOr(t, "Symbol", cols.desc),
             qty |-> LabelOr(t, "Description", cols.qty),
             price |-> LabelOr(t, "Quantity", cols.price),
             value |-> LabelOr(t, "Last Price Change", cols.value),
             day |-> LabelOr(t, "Current Value", cols.day),
             total |-> LabelOr(t, "Today's Gain/Loss Percent", cols.total),
             weight |-> LabelOr(t, "Total Gain/Loss Percent", cols.weight),
             cost |-> LabelOr(t, "Percent Of Account", cols.cost),
             avg |-> LabelOr(t, "Cost Basis Total", cols.avg)]
       ELSE cols

\* row.get(col) for a field that may have no column.
CellOf(row, c) == IF c = 0 THEN Blank ELSE row[c]

\* The rows of the table under the detected columns.
RowsUnder(t, cols) ==
    [k \in 1..Len(t.rows) |->
        [symbol |-> t.rows[k][cols.symbol].s,
         desc |-> IF cols.desc = 0 THEN "" ELSE t.rows[k][cols.desc].s,
         qty |-> t.rows[k][cols.qty],
         price |-> CellOf(t.rows[k], cols.price),
         value |-> CellOf(t.rows[k], cols.value),
         avg |-> CellOf(t.rows[k], cols.avg),
         cost |-> CellOf(t.rows[k], cols.cost),
         day |-> CellOf(t.rows[k], cols.day),
         total |-> CellOf(t.rows[k], cols.total),
         weight |-> CellOf(t.rows[k], cols.weight)]]

\* The columns and the positions ingest_positions builds from each of the
\* two tables held in jobs.
parse_positions_tables ==
    /\ resp.call = "none"
    /\ LET c1 == _repair_shift_if_needed(jobs[1], _pick_columns_for_positions(jobs[1]))
           c2 == _repair_shift_if_needed(jobs[2], _pick_columns_for_positions(jobs[2]))
       IN resp' = [call |-> "parse_positions_tables",
                   cols |-> <<c1, c2>>,
                   parsed |-> <<IF c1.symbol = 0 \/ c1.qty = 0 THEN None
                                ELSE Some(ParsePositions(RowsUnder(jobs[1], c1))),
                                IF c2.symbol = 0 \/ c2.qty = 0 THEN None
                                ELSE Some(ParsePositions(RowsUnder(jobs[2], c2)))>>]
    /\ UNCHANGED <<store, clock, uploads, jobs, replayVars, derivedVars>>

----------------------------------------------------------------------------
(* The detector over tables of one content in different column shapes *)

MaxCols == 6    \* columns of a table

Fields == {"symbol", "desc", "qty", "price", "value", "cost", "avg", "day", "total", "weight"}

\* The labels the detector recognises for a field: the exact name first.
Labels(f) ==
    CASE f = "symbol" -> <<"Symbol", "Ticker">>
      [] f = "desc" -> <<"Description">>
      [] f = "qty" -> <<"Quantity", "Shares">>
      [] f = "price" -> <<"Last Price", "Price">>
      [] f = "value" -> <<"Current Value", "Market Value">>
      [] f = "cost" -> <<"Cost Basis Total">>
      [] f = "avg" -> <<"Average Cost Basis">>
      [] f = "day" -> <<"Today's Gain/Loss Dollar", "Today Gain/Loss Dollar">>
      [] f = "total" -> <<"Total Gain/Loss Dollar">>
      [] OTHER -> <<"Percent Of Account">>

\* The cells of a field in the two rows of the content.
Content(f) ==
    CASE f = "symbol" -> <<TextCell("AAPL"), TextCell("XYZ")>>
      [] f = "desc" -> <<TextCell("APPLE INC"), TextCell("")>>
      [] f = "qty" -> <<NumCell(100), NumCell(10)>>
      [] f = "price" -> <<NumCell(5), NumCell(6)>>
      [] f = "value" -> <<NumCell(500), NumCell(60)>>
      [] f = "cost" -> <<NumCell(400), NumCell(50)>>
      [] f = "avg" -> <<NumCell(4), NumCell(5)>>
      [] f = "day" -> <<NumCell(1), NumCell(2)>>
      [] f = "total" -> <<NumCell(30), NumCell(40)>>
      [] OTHER -> <<NumCell(90), NumCell(10)>>

\* The fields of the exports of the model, in the order of the export.
Exports ==
    {<<"symbol", "qty", "price", "value", "day", "total">>,
     <<"symbol", "qty", "price", "value">>,
     <<"symbol", "qty", "value">>,
     <<"symbol", "desc", "qty", "avg">>,
     <<"symbol", "qty", "day", "total">>,
     <<"symbol", "qty", "cost", "weight">>}

\* The table with the fields fs in this order under the labels chosen by pick.
TableOf(fs, pick) ==
    [columns |-> [c \in 1..Len(fs) |-> Labels(fs[c])[pick[c]]],
     fields |-> fs,
     rows |-> [k \in 1..2 |-> [c \in 1..Len(fs) |-> Content(fs[c])[k]]]]

\* The tables with the content of the export fs: any column order, any
\* recognised label on each column.
Shapes(fs) ==
    UNION {{TableOf(gs, pick) :
              pick \in {p \in [1..Len(gs) -> 1..2] :
                          \A c \in 1..Len(gs) : p[c] <= Len(Labels(gs[c]))}} :
           gs \in {[c \in 1..Len(fs) |-> fs[o[c]]] : o \in Orders(1..Len(fs))}}

\* An export under its exact labels beside a table of the same content.
InitSchema ==
    /\ StoreEmpty
    /\ uploads = <<>>
    /\ ReplayIdle
    /\ \E fs \in Exports :
         /\ Len(fs) <= MaxCols
         /\ \E t2 \in Shapes(fs) :
               jobs = <<TableOf(fs, [c \in 1..Len(fs) |-> 1]), t2>>

NextSchema == parse_positions_tables

SpecSchema == InitSchema /\ [][NextSchema]_vars

----------------------------------------------------------------------------
(* Claims about column shapes *)

\* The field whose data the column c of the table t holds; "" without one.
FieldAt(t, c) == IF c = 0 THEN "" ELSE t.fields[c]

\* C25: for two tables of the same row content whose columns are reordered
\* or carry other recognised labels, the detector maps every canonical
\* field to the column of the same data in both, and the positions built
\* from both are the same.
C25_ColumnShapeIndependence ==
    resp.call = "parse_positions_tables"
      => /\ \A f \in Fields :
               FieldAt(jobs[1], resp.cols[1][f]) = FieldAt(jobs[2], resp.cols[2][f])
         /\ resp.parsed[1] = resp.parsed[2]

----------------------------------------------------------------------------
(* Claims about the receipts *)

\* The quantity the positions list holds of ticker t; 0 when it lists none.
QtyIn(positions, t) ==
    IF \E k \in 1..Len(positions) : positions[k].ticker = t
    THEN positions[CHOOSE k \in 1..Len(positions) : positions[k].ticker = t].quantity
    ELSE 0

\* The snapshots of col earlier than d that no other one earlier than d
\* follows.
MostRecentBefore(col, d) ==
    {i \in 1..Len(col) :
        /\ col[i].as_of < d
        /\ \A j \in 1..Len(col) : col[j].as_of < d => col[j].as_of <= col[i].as_of}

\* What the diff of the positions held against the snapshots prior lists:
\* the tickers of prior that held has less of, each with the decrease.
Decreases(col, prior, held) ==
    UNION {{[ticker |-> col[i].positions[k].ticker,
             qty |-> col[i].positions[k].quantity - QtyIn(held, col[i].positions[k].ticker)] :
               k \in {x \in 1..Len(col[i].positions) :
                        QtyIn(held, col[i].positions[x].ticker) < col[i].positions[x].quantity}} :
           i \in prior}

\* The tickers and quantities of a sold list.
SoldSet(sold) == {[ticker |-> sold[k].ticker, qty |-> sold[k].qty] : k \in 1..Len(sold)}

\* The receipt stored for the date d.
StoredReceipt(col, d) == col[CHOOSE i \in 1..Len(col) : col[i].date = d]

\* C26: the change report a positions upload for date d returns and stores
\* lists exactly the tickers of the most recent snapshot with as_of < d
\* whose quantity in the uploaded positions is lower, a ticker the upload
\* does not list counting as 0, each with qty equal to the decrease; it is
\* empty when no earlier snapshot exists.
C26_SoldDeltaReport ==
    [][(/\ Len(uploads') = Len(uploads) + 1
        /\ Uploaded.kind = "positions"
        /\ ParsePositions(Uploaded.rows).positions # <<>>)
       => LET d == Uploaded.as_of
              expected == Decreases(snapshots, MostRecentBefore(snapshots, d),
                                    ParsePositions(Uploaded.rows).positions)
          IN /\ SoldSet(resp'.receipt.sold) = expected
             /\ Len(resp'.receipt.sold) = Cardinality(expected)
             /\ \E i \in 1..Len(receipts') : receipts'[i].date = d
             /\ StoredReceipt(receipts', d).sold = resp'.receipt.sold
             /\ MostRecentBefore(snapshots, d) = {} => resp'.receipt.sold = <<>>]_vars

\* An upload after an earlier snapshot that reports a holding that shrank
\* and a holding the upload no longer lists.
C26_Witness ==
    /\ resp.call = "ingest_positions"
    /\ resp.status = 200
    /\ \E a, b \in 1..Len(resp.receipt.sold) :
          /\ resp.receipt.sold[a].to_qty > 0
          /\ resp.receipt.sold[b].to_qty = 0
          /\ \A k \in 1..Len(uploads[Len(uploads)].rows) :
                uploads[Len(uploads)].rows[k].symbol # resp.receipt.sold[b].ticker

\* C27: after any sequence of positions uploads in any date order, every
\* stored receipt for a date d equals the quantity diff between the
\* snapshot now stored for d and the most recent snapshot now stored for
\* an earlier date, and its prev_date names that earlier snapshot.
C27_ReceiptConsistency ==
    \A r \in 1..Len(receipts) :
        LET d == receipts[r].date
            prior == MostRecentBefore(snapshots, d)
            expected == Decreases(snapshots, prior,
                                  snapshots[CHOOSE i \in 1..Len(snapshots) :
                                               snapshots[i].as_of = d].positions)
        IN /\ \E i \in 1..Len(snapshots) : snapshots[i].as_of = d
           /\ SoldSet(receipts[r].sold) = expected
           /\ Len(receipts[r].sold) = Cardinality(expected)
           /\ receipts[r].prev_date
                = (IF prior = {} THEN None
                   ELSE Some(snapshots[CHOOSE i \in prior : TRUE].as_of))

----------------------------------------------------------------------------
(* The lifecycle replay over two ledgers filled by uploads in any order:   *)
(* activity_trades, and the activity_trades of a second database, jobs[1]. *)

\* A buy and a sell of one ticker on one day, and a sell of another ticker.
OrderRows ==
    {ActivityRow("You bought", Iso(3), "AAPL", Num(2), Num(5), BlankDate, "", Blank),
     ActivityRow("You sold", Iso(3), "AAPL", Paren(2), Num(5), BlankDate, "", Blank),
     ActivityRow("You sold", Iso(3), " XYZ ", Num(1), Num(5), BlankDate, "", Blank)}

\* Files of one trade each.
OrderFiles == {<<r>> : r \in OrderRows}

\* ingest_activity against the second database.
ingest_activity_other(filename, df, ts) ==
    /\ NumUploads("activity_other") < MaxUploads
    /\ LET out == IngestRows(jobs[1], df, 1, ts, filename, [written |-> 0, skipped |-> 0])
       IN /\ jobs' = <<out.col>>
          /\ clock' = IF Len(df) = 0 THEN clock ELSE ts[Len(df)]
          /\ resp' = [call |-> "ingest_activity",
                      rows_written |-> out.written,
                      rows_skipped |-> out.skipped,
                      rows_total_seen |-> out.seen]
          /\ uploads' = Append(uploads, [kind |-> "activity_other", filename |-> filename,
                                         rows |-> df])
    /\ UNCHANGED <<store, replayVars, derivedVars>>

\* The maps the replay can return over each of the two ledgers.
opened_at_maps(end_date, only_tickers) ==
    /\ resp' = [call |-> "opened_at_maps",
                ledgers |-> <<activity_trades, jobs[1]>>,
                maps |-> <<_opened_at_map_from_activity_trades(
                               activity_trades, WindowStart, end_date, only_tickers),
                           _opened_at_map_from_activity_trades(
                               jobs[1], WindowStart, end_date, only_tickers)>>]
    /\ UNCHANGED <<store, clock, uploads, jobs, replayVars, derivedVars>>

OrderCutoffs == {None, Some(3)}
OrderTickers == {None, Some({"AAPL"})}

InitOrder ==
    /\ StoreEmpty
    /\ uploads = <<>>
    /\ jobs = <<<<>>>>
    /\ ReplayIdle

NextOrder ==
    \/ \E df \in OrderFiles : \E ts \in RowTimes(Len(df), clock) :
          ingest_activity("a.csv", df, ts)
    \/ \E df \in OrderFiles : \E ts \in RowTimes(Len(df), clock) :
          ingest_activity_other("a.csv", df, ts)
    \/ \E end_date \in OrderCutoffs, only_tickers \in OrderTickers :
          opened_at_maps(end_date, only_tickers)

SpecOrder == InitOrder /\ [][NextOrder]_vars

\* A trade record without the times of its writes.
Stripped(doc) == [k \in DOMAIN doc \ {"created_at", "updated_at"} |-> doc[k]]

RecordsOf(col) == {Stripped(col[i]) : i \in 1..Len(col)}

\* C28: for two ledgers that hold the same set of trade records, built by
\* uploading the rows in different orders, the lifecycle replay returns the
\* same mapping for every ticker set and cutoff, also when a BUY and a SELL
\* of one ticker carry the same trade_date.
C28_InsertionOrderIndependence ==
    (/\ resp.call = "opened_at_maps"
     /\ RecordsOf(resp.ledgers[1]) = RecordsOf(resp.ledgers[2]))
      => \A m1 \in resp.maps[1], m2 \in resp.maps[2] : m1 = m2

----------------------------------------------------------------------------
(* The open markers and the running quantities of the replay *)

----------------------------------------------------------------------------
(* Identities of distinct trades *)

\* C30: two accepted activity rows that differ in at least one of the seven
\* identity fields, an absent price counting as different from every
\* numeric price, 0 included, get different trade identities and are stored
\* as two records.
C30_DistinctTradesDistinctIds ==
    \A a, b \in Occurrences :
        SevenFields(OccRow(a)) # SevenFields(OccRow(b))
          => /\ OccId(a) # OccId(b)
             /\ \E i, j \in 1..Len(activity_trades) :
                   /\ i # j
                   /\ activity_trades[i].trade_id = OccId(a)
                   /\ activity_trades[j].trade_id = OccId(b)

====
